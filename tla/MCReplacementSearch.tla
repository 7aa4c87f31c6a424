------------------------ MODULE MCReplacementSearch ------------------------
(* Small days for TLC.  Locations l1 and l2; ann works at l1.               *)
EXTENDS ReplacementSearch, TLC

CONSTANTS ann, bea, cat, r1, r2, l1, l2, early, late, urgent

mcWaveRank == early :> 1 @@ late :> 2 @@ urgent :> 1
mcNameRank == ann :> 1 @@ bea :> 2 @@ cat :> 3

\* r1 and r2: ann's search and its restart after a cancellation.
RestartRequester == r1 :> ann @@ r2 :> ann
RestartLocation == r1 :> l1 @@ r2 :> l1

\* r1 and r2: two searches of one day, by ann at l1 and by an administrator at
\* l2, where nobody is scheduled.
DayRequester == r1 :> ann @@ r2 :> None
DayLocation == r1 :> l1 @@ r2 :> l2
DayHolder == l1 :> ann @@ l2 :> None

OneRequester == r1 :> ann
OneLocation == r1 :> l1
OneHolder == l1 :> ann

EarlyCandidates == early :> {bea} @@ late :> {cat} @@ urgent :> {bea, cat}
BeaCandidates == early :> {bea} @@ late :> {} @@ urgent :> {bea}
EarlyAsk == [r \in Requests |-> EarlyCandidates]
BeaAsk == [r \in Requests |-> BeaCandidates]

AllLinked == [l \in Locations |-> TRUE]
NoneLinked == [l \in Locations |-> FALSE]
NoEdits == {}
\* The mirror links ann's row, or the shift goes to bea or cat.
LinkAndHandOver == {<<l1, ann, TRUE>>, <<l1, bea, TRUE>>, <<l1, cat, TRUE>>}
=============================================================================
