----------------------------- MODULE MCAutomation -----------------------------
(* Instances of Automation for TLC.                                          *)
EXTENDS Automation

(* Calls differ in nothing but their name.                                   *)
ActorSymmetry == Permutations(Actors)

(* Two reconcilers and the owner of the schedule.                            *)
Scheduling == [ops |-> {"reconcile", "schedule"},
               stops |-> FALSE, chunks |-> 0, times |-> 4, items |-> 0, epochs |-> 0, ids |-> 5]

(* Reconcilers that poll while items arrive, and a compaction of something   *)
(* else now and then.                                                        *)
Polling == [ops |-> {"reconcile", "backfill"}, stops |-> FALSE,
            chunks |-> 0, times |-> 0, items |-> 2, epochs |-> 1, ids |-> 6]

(* Reconcilers and the owner of the backfill.                                *)
Backfilling == [ops |-> {"reconcile", "backfill"},
                stops |-> TRUE, chunks |-> 3, times |-> 0, items |-> 0, epochs |-> 0, ids |-> 8]

(* All three at once.                                                        *)
Mixed == [ops |-> {"reconcile"},
          stops |-> TRUE, chunks |-> 1, times |-> 1, items |-> 1, epochs |-> 1, ids |-> 5]

Races == {Scheduling, Polling, Backfilling, Mixed}

(* A backfill of more chunks than may run at once, and nothing else.         *)
Alone == {[ops |-> {"reconcile"},
           stops |-> FALSE, chunks |-> 2, times |-> 0, items |-> 0, epochs |-> 0, ids |-> 10]}

Polls == {Polling}

Schedules == {Scheduling}
==============================================================================
