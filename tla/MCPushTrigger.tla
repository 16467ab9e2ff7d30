---------------------------- MODULE MCPushTrigger ----------------------------
(***************************************************************************)
(* The push trigger twice: with runs that end before their entries expire  *)
(* (the trigger's own variables), and with runs of any length.  A          *)
(* behaviour is that of one of the two, chosen at the start: the variables *)
(* of the other do not change.                                             *)
(***************************************************************************)
EXTENDS PushTrigger, FiniteSets

VARIABLES late, lateKeys, lateCount, lateCountAge, lateCountIdle, lateCondAge, lateCondIdle,
          lateQueue, lateOrphans, lateWoken, lateRunning, lateUncovered

lates == <<lateKeys, lateCount, lateCountAge, lateCountIdle, lateCondAge, lateCondIdle,
           lateQueue, lateOrphans, lateWoken, lateRunning, lateUncovered>>

L == INSTANCE PushTrigger WITH
       Deliveries <- CHOOSE D \in SUBSET Deliveries : Cardinality(D) = 3, Ttl <- 1, Prompt <- FALSE,
       keys <- lateKeys, count <- lateCount, countAge <- lateCountAge, countIdle <- lateCountIdle,
       condAge <- lateCondAge, condIdle <- lateCondIdle, queue <- lateQueue, orphans <- lateOrphans,
       woken <- lateWoken, running <- lateRunning, uncovered <- lateUncovered

MCInit == late \in BOOLEAN /\ Init /\ L!Init
MCNext == \/ ~late /\ Next /\ UNCHANGED <<late, lates>>
          \/ late /\ L!Next /\ UNCHANGED <<late, vars>>
MCSpec == MCInit /\ [][MCNext]_<<late, lates, vars>> /\ Fairness

\* An entry of the counter dictionary has a time from which it grows old,
\* however long the runs are (the expiry of DefaultDictWithTimeout).
NoneImmortal == L!NoImmortalEntry

=============================================================================
