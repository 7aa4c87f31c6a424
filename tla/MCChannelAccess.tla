---------------------------- MODULE MCChannelAccess ----------------------------
(* One chat beside the channel, of a location or not. What may happen is chosen *)
(* before the first step: it is one of these sets.                              *)
EXTENDS ChannelAccess

mcScenes ==
    {{"staff", "leave", "join"}, {"staff", "never", "join"}, {"staff", "bot"}, {"staff", "sweep", "location"},
     {"staff", "telegram"}, {"staff", "registry"}, {"staff", "ack"}, {"staff", "crash"},
     {"bot", "sweep", "blip"}, {"bot", "sweep", "blip", "location"}, {"bot", "crash"}}
=============================================================================
