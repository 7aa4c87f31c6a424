------------------------------- MODULE MCParcels -------------------------------
(* Parcels on their way, for TLC: who presses what, what fails and what Nova  *)
(* Poshta says.                                                               *)
EXTENDS Parcels

CONSTANTS ann, bea, c1, c2

Unknown == [status |-> NoRow, loc |-> FALSE, courier |-> FALSE, resp |-> None,
            accepted |-> "none", photos |-> FALSE, delivered |-> "none",
            verifying |-> "none", marks |-> {}, idle |-> FALSE, rejections |-> 0]
Arrived == [Unknown EXCEPT !.status = "ARRIVED", !.loc = TRUE]

\* A parcel in a branch, and one the web app has just begun to list.
InBranch(people, acts, faults, news, courier, shifts, overlap) ==
    [row |-> Arrived, np |-> "ARRIVED",
     web |-> [listed |-> TRUE, loc |-> TRUE, courier |-> courier],
     people |-> people \cup {"admin", c1}, acts |-> acts, faults |-> faults, news |-> news,
     shifts |-> shifts, overlap |-> overlap, others |-> TRUE, hours |-> TRUE]
New(faults, news, shifts) ==
    [InBranch({ann}, {"photo"}, faults, news, TRUE, shifts, FALSE)
        EXCEPT !.row = Unknown, !.np = "EXPECTED", !.web.loc = FALSE]

\* In turn: two people and a handoff; reminders, photographs and support's
\* buttons; lost letters and crashes; a parcel that is found and redirected; one
\* that is the last of the list, at a location without hours.
InTurn == {
    InBranch({ann, bea}, {"accept"}, {}, {"DELIVERED"}, FALSE, {{ann}}, FALSE),
    InBranch({ann}, {"accept", "photo"}, {}, {"DELIVERED"}, FALSE, {{ann}}, FALSE),
    InBranch({ann}, {"photo", "confirm", "drop"}, {}, {"DELIVERED", "REDIRECTED"}, FALSE, {{ann}}, FALSE),
    InBranch({ann}, {"manual", "photo"}, {}, {"DELIVERED"}, FALSE, {{ann}}, FALSE),
    InBranch({ann}, {"accept", "delete"}, {}, {"DELIVERED", "COMPLETED"}, FALSE, {{ann}}, FALSE),
    InBranch({ann}, {"accept", "photo"}, {"send", "crash"}, {}, FALSE, {{ann}}, FALSE),
    New({"web", "track"}, {"ARRIVED", "REDIRECTED"}, {{ann}}),
    New({}, {"DELIVERED"}, {{}, {ann, bea}}),
    [InBranch({ann}, {"accept", "drop"}, {}, {"DELIVERED", "REDIRECTED"}, FALSE, {{ann}}, FALSE)
        EXCEPT !.others = FALSE, !.hours = FALSE] }

\* At once: two claims and a redirection, two refusals, a courier's parcel that
\* is taken and assigned, a claim and support's "picked up".
AtOnce == {
    InBranch({ann, bea}, {"accept"}, {}, {"REDIRECTED"}, FALSE, {{ann, bea}}, TRUE),
    InBranch({ann, bea}, {"reject"}, {"send"}, {}, FALSE, {{ann, bea}}, TRUE),
    InBranch({ann}, {"photo"}, {}, {"DELIVERED"}, TRUE, {{ann}}, TRUE),
    InBranch({ann}, {"accept", "manual"}, {}, {}, FALSE, {{ann}}, TRUE) }

\* A slow cycle and the next one: a parcel is handed over, one is assigned, one
\* is found.
TwoCycles == {[s EXCEPT !.people = @ \cup {c2}, !.faults = {"slow"}, !.overlap = TRUE] : s \in {
    InBranch({ann, bea}, {"accept"}, {}, {}, FALSE, {{ann}}, TRUE),
    InBranch({ann}, {}, {}, {"DELIVERED"}, TRUE, {{ann}}, TRUE),
    New({}, {"ARRIVED"}, {{ann}}) }}

mcScenes == InTurn \cup AtOnce \cup TwoCycles
=============================================================================
