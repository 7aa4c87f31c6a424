---------------------------- MODULE MCSupportThread ----------------------------
(* Instances of SupportThread for TLC: what each behaviour is about.         *)
EXTENDS SupportThread

mcScenes ==
    {{"q1", "t1", "call"},              \* an owner is called to a question
     {"q1", "q2", "panel"},             \* the admin panel writes as well
     {"q1", "q2", "delete", "unsure"},  \* topics deleted by hand, doubtful copies
     {"q1", "a1", "delete", "context"}, \* her text and her album both find it deleted
     {"a1", "r1", "delete", "record"},  \* her album and a report; writes that fail
     {"q1", "t1", "leave"},             \* a dismissal and a return
     {"q1", "legacy"},                  \* an old conversation is moved
     {"legacy", "crash"},
     {"q1", "lapse", "panel"}}          \* the lock of ensureThread expires
=============================================================================
