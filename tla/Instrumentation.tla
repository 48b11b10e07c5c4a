--------------------------- MODULE Instrumentation ---------------------------
(***************************************************************************)
(* The recorder of io/instrumentation.cc: the walls of the offline steps,  *)
(* one record per query, and the totals that finalize writes.  Times are   *)
(* numbers of the caller's clock; bytes and memory are left out.  The      *)
(* record and the round that a call writes to are found by two indices     *)
(* that earlier calls have left.                                           *)
(***************************************************************************)
EXTENDS Integers, Sequences

VARIABLES
    step_timers_,       \* start of each offline step
    sub_steps,          \* the sub-steps recorded so far
    offline,            \* wall_us of each offline step
    queries,            \* the query records, in the order of startQuery
    current_query_id_,  \* the id given to startQuery, or nullopt
    current_round_idx_, \* place of the open round in its record, or nullopt
    session_wall_us     \* set by finalize

instrumentation_vars == <<step_timers_, sub_steps, offline, queries,
                          current_query_id_, current_round_idx_, session_wall_us>>

nullopt == -1

OfflineSteps == {"step_init", "step_partition", "step_blind", "step_share",
                 "step_interp_pack"}
SenderSubSteps == {"coef_load", "ctxt_inner_product", "noise_flood", "mod_switch",
                   "serialize", "wall"}
SubSteps == {"sample_coef", "eval_shares", "interpolate", "simd_pack"}

QueryMetrics(query_id) ==
    [query_id |-> query_id, gc_us |-> 0, r_encrypt_us |-> 0, hom_rounds |-> <<>>,
     token_check_us |-> 0, label_recovery_us |-> 0, labels |-> {},
     online_wall_us |-> 0]
HomRound == [s |-> [x \in SenderSubSteps |-> 0], r_decrypt_us |-> 0]

InstrumentationInit ==
    /\ step_timers_ = [s \in OfflineSteps |-> 0]
    /\ sub_steps = [s \in SubSteps |-> 0]
    /\ offline = [s \in OfflineSteps |-> 0]
    /\ queries = <<>>
    /\ current_query_id_ = nullopt
    /\ current_round_idx_ = nullopt
    /\ session_wall_us = 0

----------------------------------------------------------------------------

SubStepSum(step) ==
    CASE step = "step_share" -> sub_steps["sample_coef"] + sub_steps["eval_shares"]
      [] step = "step_interp_pack" -> sub_steps["interpolate"] + sub_steps["simd_pack"]
      [] OTHER -> 0

recordOfflineStepStart(step, now) ==
    /\ step_timers_' = [step_timers_ EXCEPT ![step] = now]
    /\ UNCHANGED <<sub_steps, offline, queries, current_query_id_,
                   current_round_idx_, session_wall_us>>

\* Where sub-steps were recorded, their sum is the wall of the step.
recordOfflineStepEnd(step, now) ==
    /\ offline' = [offline EXCEPT ![step] =
                      IF SubStepSum(step) > 0 THEN SubStepSum(step)
                      ELSE now - step_timers_[step]]
    /\ UNCHANGED <<step_timers_, sub_steps, queries, current_query_id_,
                   current_round_idx_, session_wall_us>>

recordSubStepTiming(sub_step, us) ==
    /\ sub_steps' = [sub_steps EXCEPT ![sub_step] = us]
    /\ UNCHANGED <<step_timers_, offline, queries, current_query_id_,
                   current_round_idx_, session_wall_us>>

----------------------------------------------------------------------------

\* The index by which the recorders find the new record: its id.
\* Mutant: the last record there was before it was added.
IndexBeforeNewQuery(query_id) == Len(queries) - 1
IndexOfNewQuery(query_id) == query_id

startQuery(query_id) ==
    /\ queries' = Append(queries, QueryMetrics(query_id))
    /\ current_query_id_' = IndexOfNewQuery(query_id)
    /\ UNCHANGED <<step_timers_, sub_steps, offline, current_round_idx_,
                   session_wall_us>>

endQuery ==
    /\ current_query_id_' = nullopt
    /\ UNCHANGED <<step_timers_, sub_steps, offline, queries, current_round_idx_,
                   session_wall_us>>

\* session_.queries[current_query_id_], counted from one.
Current == current_query_id_ + 1
CurrentQuery == queries[Current]

\* The recorders of a query do nothing while none is started.
WriteQuery(query) ==
    /\ IF current_query_id_ = nullopt THEN UNCHANGED queries
       ELSE queries' = [queries EXCEPT ![Current] = query]
    /\ UNCHANGED <<step_timers_, sub_steps, offline, current_query_id_,
                   current_round_idx_, session_wall_us>>

recordStepGC(us) == WriteQuery([CurrentQuery EXCEPT !.gc_us = us])
recordStepQueryPowers(us) == WriteQuery([CurrentQuery EXCEPT !.r_encrypt_us = us])
recordStepTokenCheck(us) == WriteQuery([CurrentQuery EXCEPT !.token_check_us = us])
recordStepLabelRecovery(us) == WriteQuery([CurrentQuery EXCEPT !.label_recovery_us = us])
recordQueryResult(labels) == WriteQuery([CurrentQuery EXCEPT !.labels = labels])

startHomRound ==
    /\ IF current_query_id_ = nullopt THEN UNCHANGED <<queries, current_round_idx_>>
       ELSE /\ queries' = [queries EXCEPT ![Current].hom_rounds = Append(@, HomRound)]
            /\ current_round_idx_' = Len(CurrentQuery.hom_rounds)
    /\ UNCHANGED <<step_timers_, sub_steps, offline, current_query_id_,
                   session_wall_us>>

\* The recorders of a round also need one to be open.
WriteRound(round) ==
    /\ IF current_query_id_ = nullopt \/ current_round_idx_ = nullopt
         THEN UNCHANGED queries
         ELSE queries' =
                [queries EXCEPT ![Current].hom_rounds[current_round_idx_ + 1] = round]
    /\ UNCHANGED <<step_timers_, sub_steps, offline, current_query_id_,
                   current_round_idx_, session_wall_us>>

CurrentRound == CurrentQuery.hom_rounds[current_round_idx_ + 1]
recordHomRoundSenderSubStep(sub_step, us) ==
    WriteRound([CurrentRound EXCEPT !.s[sub_step] = us])
recordHomRoundReceiverSubStep(us) == WriteRound([CurrentRound EXCEPT !.r_decrypt_us = us])

endHomRound ==
    /\ current_round_idx_' = nullopt
    /\ UNCHANGED <<step_timers_, sub_steps, offline, queries, current_query_id_,
                   session_wall_us>>

----------------------------------------------------------------------------

\* f[1] + ... + f[n].
Total(f, n) ==
    LET s[k \in 0 .. n] == IF k = 0 THEN 0 ELSE s[k - 1] + f[k] IN s[n]

\* Mutant: the inner product is added to the wall that contains it.
RoundWallAndParts(round) ==
    round.s["wall"] + round.s["ctxt_inner_product"] + round.r_decrypt_us
RoundWall(round) == round.s["wall"] + round.r_decrypt_us

online_total(query) ==
    query.gc_us + query.r_encrypt_us + query.token_check_us + query.label_recovery_us
      + Total([r \in DOMAIN query.hom_rounds |-> RoundWall(query.hom_rounds[r])],
            Len(query.hom_rounds))

total_offline_us ==
    offline["step_init"] + offline["step_partition"] + offline["step_blind"]
      + offline["step_share"] + offline["step_interp_pack"]

finalize ==
    /\ queries' = [n \in DOMAIN queries |->
                     [queries[n] EXCEPT !.online_wall_us = online_total(queries[n])]]
    /\ session_wall_us' =
         total_offline_us
           + Total([n \in DOMAIN queries |-> online_total(queries[n])], Len(queries))
    /\ UNCHANGED <<step_timers_, sub_steps, offline, current_query_id_,
                   current_round_idx_>>
==============================================================================
