---------------------------- MODULE UsageRecords ----------------------------
(***************************************************************************)
(* The usage_records table and UsageService.recordUsage                    *)
(* (apps/api/src/usage/usage.service.ts).  A record is identified by its   *)
(* idempotency key, which its three callers build from the kind of usage   *)
(* and the row that is charged: CALL_MINUTE_<call>, REC_<recording> and    *)
(* PHONE_NUMBER_PROVISION_<number>.                                        *)
(***************************************************************************)
EXTENDS Naturals

VARIABLE usage   \* the rows of usage_records

UsageType == {"CALL_MINUTE", "PHONE_NUMBER", "RECORDING_STORAGE"}

Usage(type, source, workspace, quantity) ==
    [type |-> type, source |-> source, workspace |-> workspace,
     quantity |-> quantity]

SameKey(u, v) == u.type = v.type /\ u.source = v.source

\* The upsert has an empty update: the first record of a key stays.
recordUsage(u) ==
    usage' = IF \E v \in usage : SameKey(u, v) THEN usage ELSE usage \cup {u}
=============================================================================
