---- MODULE MCRtosMutex ----
(* Instances of RtosMutex for TLC: which priorities share a mutex. *)
EXTENDS RtosMutex
CONSTANT t1

(* NetTask, SensorTask, MediaTask and LeptonTask all run at osPriorityNormal. *)
SamePrio == [t \in Threads |-> 1]
(* ZXingTask runs at osPriorityBelowNormal: a larger number in ASP3. *)
MixedPrio == [t \in Threads |-> IF t = t1 THEN 2 ELSE 1]
====
