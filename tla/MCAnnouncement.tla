---------------------------- MODULE MCAnnouncement ----------------------------
(* What may happen to an announcement after SEND, for TLC: one command, or    *)
(* two that meet, with the events that matter to them.                        *)
EXTENDS Announcement

CONSTANTS c1, c2

Alone == {[may |-> events, to |-> {c1}] : events \in
    {{"REMIND", "ack", "unsure"}, {"REMIND", "tap"}, {"REMIND", "STOP"}, {"REMIND", "crash"}, {"REMIND", "halt"},
     {"STOP", "auto", "unsure"},
     {"EDIT", "tap", "crash", "unsure", "ack"}, {"EDIT", "auto"}, {"tap", "auto"}, {"WITHDRAW", "auto"},
     {"EDIT", "halt"}, {"EDIT", "recall"}, {"EDIT", "REMIND"}, {"EDIT", "WITHDRAW", "tap"}}}
Together == {[may |-> events, to |-> {c1, c2}] : events \in
    {{"REMIND"}, {"crash", "ack", "unsure"}, {"WITHDRAW", "crash", "ack", "unsure"}}}
mcScenes == Alone \cup Together
=============================================================================
