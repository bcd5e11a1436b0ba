--------------------------- MODULE GraphIngestion ---------------------------
(***************************************************************************)
(* What an updater of the graph memory promises to the code that stops it: *)
(* each activity it accepted is written to the graph at most once, and it  *)
(* finishes only when everything accepted has been ingested.  MemoryUpdater *)
(* implements this; SimulationRunner relies on it.                         *)
(***************************************************************************)
EXTENDS Naturals

CONSTANTS Activities

VARIABLES
  accepted,   \* the activities the updater took
  open,       \* it still takes some
  attempted,  \* those whose write was attempted
  ingested,   \* those the graph has processed
  finished    \* it reported that nothing is outstanding

ingestionVars == <<accepted, open, attempted, ingested, finished>>

IngestionInit ==
  /\ accepted = {} /\ open = TRUE
  /\ attempted = {} /\ ingested = {}
  /\ finished = FALSE

Accept(a) ==
  /\ open /\ a \notin accepted
  /\ accepted' = accepted \cup {a}
  /\ UNCHANGED <<open, attempted, ingested, finished>>

Close ==
  /\ open /\ open' = FALSE
  /\ UNCHANGED <<accepted, attempted, ingested, finished>>

(* One call of the graph: an activity is part of at most one.              *)
Attempt(S) ==
  /\ S \subseteq accepted \ attempted
  /\ attempted' = attempted \cup S
  /\ UNCHANGED <<accepted, open, ingested, finished>>

Ingest(S) ==
  /\ S \subseteq attempted \ ingested
  /\ ingested' = ingested \cup S
  /\ UNCHANGED <<accepted, open, attempted, finished>>

Finish ==
  /\ ~open /\ accepted = ingested
  /\ finished' = TRUE
  /\ UNCHANGED <<accepted, open, attempted, ingested>>

IngestionNext ==
  \/ \E a \in Activities : Accept(a)
  \/ Close
  \/ \E S \in SUBSET Activities : Attempt(S) \/ Ingest(S)
  \/ Finish

IngestionSpec == IngestionInit /\ [][IngestionNext]_ingestionVars
=============================================================================
