------------------------------ MODULE AppStorage ------------------------------
(***************************************************************************)
(* components/app_storage: the configuration slots as keys of the NVS      *)
(* namespace wifi_config.                                                  *)
(*                                                                         *)
(* save, stage, promote and clear hold s_wifi_config_mutex from their      *)
(* first read to nvs_close: an operation reads and decides, then issues    *)
(* its writes and erases one by one, then commits.  The first call that    *)
(* fails ends it; nothing is undone.  The recovery mark and counter are    *)
(* written by the main task without the mutex.  Power may fail, and        *)
(* esp_restart may be called, between any two calls.                       *)
(*                                                                         *)
(* ESP-IDF promises of nvs_set_* that the value is durable after           *)
(* nvs_commit, and leaves open whether it is before.  Transactional        *)
(* chooses: TRUE, all writes of a handle take effect at the commit, or     *)
(* never; FALSE, each takes effect as it is made, as ESP-IDF's NVS does.   *)
(***************************************************************************)
EXTENDS Integers, Sequences

CONSTANTS
  Creds, Requests, Versions, None,  \* as in WifiSlots
  Transactional,  \* does nvs_commit make the writes of a handle durable at once
  RetryLimit,     \* 255: the recovery counter stops there
  MaxRestarts,    \* bound: restarts of a behaviour
  MaxFailures     \* bound: NVS calls that fail

ASSUME AppStorageAssumption ==
  /\ Versions \subseteq Nat \ {0}
  /\ None \notin Creds /\ None \notin Requests /\ None \notin Versions
  /\ None \notin [cred : Creds, req : Requests, ver : Versions]
  /\ Transactional \in BOOLEAN
  /\ RetryLimit \in Nat /\ None \notin 0..RetryLimit
  /\ MaxRestarts \in Nat /\ MaxFailures \in Nat

VARIABLES
  nvs,       \* what nvs_get_* answers, and a restart finds
  holder,    \* the operation that holds s_wifi_config_mutex
  retryRead, \* main task: recovery counter read, not yet written back
  restarts, failures

\* History, read by no action.
VARIABLE
  accepted   \* the last configuration a stage reported stored, until another
             \* stage, a save or a clear sets out to replace it

vars == <<nvs, holder, retryRead, restarts, failures, accepted>>

-----------------------------------------------------------------------------
(* Keys, and what the load functions make of them. *)

Config == [cred : Creds, req : Requests, ver : Versions]
Counts == 0..RetryLimit

\* The SSID and the password of a pair of credentials are named by the pair.
Nvs == [sta_ssid : Creds \cup {None}, sta_password : Creds \cup {None},
        cand_ssid : Creds \cup {None}, cand_pass : Creds \cup {None},
        cand_req : Requests \cup {None}, cand_ver : Versions \cup {None},
        active_req : Requests \cup {None}, active_ver : Versions \cup {None},
        recv_trig : {1, None}, recv_retry : Counts \cup {None}]

\* load_candidate_from_handle: without an SSID there is no candidate; with one,
\* a missing key is ESP_ERR_INVALID_STATE.
CandidateError(n) ==
  IF n.cand_ssid = None THEN "not_found"
  ELSE IF None \in {n.cand_pass, n.cand_req, n.cand_ver} THEN "invalid_state" ELSE "ok"

\* load_metadata_pair: both keys, or neither.
ActivePresent(n) == n.active_req # None /\ n.active_ver # None
ActiveError(n) ==
  IF (n.active_req = None) # (n.active_ver = None) THEN "invalid_state" ELSE "ok"

\* app_storage_load_wifi_credentials.
CurrentPresent(n) == n.sta_ssid # None /\ n.sta_password # None

-----------------------------------------------------------------------------
(* The four operations: what they write, and in which order. *)

StageOrder == <<"cand_ssid", "cand_pass", "cand_req", "cand_ver">>
StageWrites(c) == [cand_ssid |-> c.cred, cand_pass |-> c.cred,
                   cand_req |-> c.req, cand_ver |-> c.ver]

\* MUTANT: the candidate is erased before the active metadata is written.
PromoteOrderErasesFirst ==
  <<"cand_ssid", "cand_pass", "cand_req", "cand_ver", "sta_ssid", "sta_password",
    "active_req", "active_ver", "recv_trig", "recv_retry">>

PromoteOrder ==
  <<"sta_ssid", "sta_password", "active_req", "active_ver",
    "cand_ssid", "cand_pass", "cand_req", "cand_ver", "recv_trig", "recv_retry">>

\* MUTANT: the candidate stays.
PromoteWritesKeepsCandidate(n) ==
  [sta_ssid |-> n.cand_ssid, sta_password |-> n.cand_pass,
   active_req |-> n.cand_req, active_ver |-> n.cand_ver,
   cand_ssid |-> n.cand_ssid, cand_pass |-> n.cand_pass, cand_req |-> n.cand_req,
   cand_ver |-> n.cand_ver, recv_trig |-> None, recv_retry |-> None]

PromoteWrites(n) ==
  [sta_ssid |-> n.cand_ssid, sta_password |-> n.cand_pass,
   active_req |-> n.cand_req, active_ver |-> n.cand_ver,
   cand_ssid |-> None, cand_pass |-> None, cand_req |-> None, cand_ver |-> None,
   recv_trig |-> None, recv_retry |-> None]

SaveOrder ==
  <<"sta_ssid", "sta_password", "cand_ssid", "cand_pass", "cand_req", "cand_ver",
    "active_req", "active_ver", "recv_trig", "recv_retry">>
SaveWrites(c) ==
  [sta_ssid |-> c, sta_password |-> c,
   cand_ssid |-> None, cand_pass |-> None, cand_req |-> None, cand_ver |-> None,
   active_req |-> None, active_ver |-> None, recv_trig |-> None, recv_retry |-> None]

ClearOrder  == <<"sta_ssid", "sta_password", "active_req", "active_ver">>

ClearWrites == [sta_ssid |-> None, sta_password |-> None,
                active_req |-> None, active_ver |-> None]

Operation(kind, order, writes, config) ==
  [kind |-> kind, order |-> order, writes |-> writes, config |-> config]

\* n with the keys of w replaced.
Over(n, w) == [k \in DOMAIN n |-> IF k \in DOMAIN w THEN w[k] ELSE n[k]]

-----------------------------------------------------------------------------
Init ==
  /\ \E c \in Creds \cup {None} :
       nvs = [sta_ssid |-> c, sta_password |-> c,
              cand_ssid |-> None, cand_pass |-> None, cand_req |-> None, cand_ver |-> None,
              active_req |-> None, active_ver |-> None,
              recv_trig |-> None, recv_retry |-> None]
  /\ holder = None /\ retryRead = None
  /\ restarts = 0 /\ failures = 0
  /\ accepted = None

-----------------------------------------------------------------------------
(* Taking the mutex, reading, deciding. *)

\* MUTANT: compares with the candidate alone.
HighestIgnoresActive(n) == IF CandidateError(n) = "ok" THEN n.cand_ver ELSE 0

\* highest_version of what is pending and what is active.
Highest(n) ==
  LET pending == IF CandidateError(n) = "ok" THEN n.cand_ver ELSE 0
      act     == IF ActivePresent(n) THEN n.active_ver ELSE 0
  IN  IF act > pending THEN act ELSE pending

\* The result of app_storage_stage_candidate_wifi_config short of writing.
StageResult(n, c) ==
  IF CandidateError(n) = "invalid_state" \/ ActiveError(n) = "invalid_state"
  THEN "invalid_state"
  ELSE IF \/ CandidateError(n) = "ok" /\ n.cand_ver = c.ver /\ n.cand_req = c.req
          \/ ActivePresent(n) /\ n.active_ver = c.ver /\ n.active_req = c.req
  THEN "idempotent"
  ELSE IF c.ver < Highest(n) THEN "stale_version"
  ELSE IF c.ver = Highest(n) THEN "version_conflict" ELSE "stored"

\* Every result but "stored" returns without a write.
StageBegin(c) ==
  /\ holder = None /\ StageResult(nvs, c) = "stored"
  /\ holder' = Operation("stage", StageOrder, StageWrites(c), c)
  /\ accepted' = None
  /\ UNCHANGED <<nvs, retryRead, restarts, failures>>

\* main expects the configuration it verified; another one in the slot, or none,
\* is refused before any write.
PromoteBegin(req, ver) ==
  /\ holder = None
  /\ CandidateError(nvs) = "ok" /\ nvs.cand_req = req /\ nvs.cand_ver = ver
  /\ holder' = Operation("promote", PromoteOrder, PromoteWrites(nvs), None)
  /\ UNCHANGED <<nvs, retryRead, restarts, failures, accepted>>

\* The portal's form.
SaveBegin(c) ==
  /\ holder = None
  /\ holder' = Operation("save", SaveOrder, SaveWrites(c), None)
  /\ accepted' = None
  /\ UNCHANGED <<nvs, retryRead, restarts, failures>>

ClearBegin ==
  /\ holder = None
  /\ holder' = Operation("clear", ClearOrder, ClearWrites, None)
  /\ accepted' = None
  /\ UNCHANGED <<nvs, retryRead, restarts, failures>>

-----------------------------------------------------------------------------
(* NVS calls of the operation that holds the mutex. *)

\* nvs_set_* or nvs_erase_key; erasing an absent key is no error.
Write ==
  /\ holder # None /\ holder.order # <<>>
  /\ LET k == Head(holder.order)
     IN  nvs' = IF Transactional THEN nvs ELSE [nvs EXCEPT ![k] = holder.writes[k]]
  /\ holder' = [holder EXCEPT !.order = Tail(@)]
  /\ UNCHANGED <<retryRead, restarts, failures, accepted>>

Commit ==
  /\ holder # None /\ holder.order = <<>>
  /\ nvs' = IF Transactional THEN Over(nvs, holder.writes) ELSE nvs
  /\ holder' = None
  /\ accepted' = IF holder.kind = "stage" THEN holder.config ELSE accepted
  /\ UNCHANGED <<retryRead, restarts, failures>>

\* MUTANT: a failed call does not keep the commit from being made.
CallFailsYetCommits ==
  /\ holder # None /\ failures < MaxFailures
  /\ nvs' = IF Transactional /\ holder.order # <<>>
            THEN Over(nvs, [k \in DOMAIN holder.writes \ {Head(holder.order)} |-> holder.writes[k]])
            ELSE nvs
  /\ holder' = None
  /\ failures' = failures + 1
  /\ UNCHANGED <<retryRead, restarts, accepted>>

\* A set, an erase or the commit fails: nvs_close, the mutex is given back, and
\* what was written stays written.
CallFails ==
  /\ holder # None /\ failures < MaxFailures
  /\ holder' = None
  /\ failures' = failures + 1
  /\ UNCHANGED <<nvs, retryRead, restarts, accepted>>

-----------------------------------------------------------------------------
(* The main task's recovery mark and counter, without the mutex. *)

\* app_storage_set_recovery_triggered; app_storage_clear_recovery_triggered.
SetRecovery(value) ==
  /\ retryRead = None
  /\ nvs' = [nvs EXCEPT !.recv_trig = value]
  /\ UNCHANGED <<holder, retryRead, restarts, failures, accepted>>

\* app_storage_increment_recovery_retry: read ...
ReadRetry ==
  /\ retryRead = None
  /\ retryRead' = IF nvs.recv_retry = None THEN 0 ELSE nvs.recv_retry
  /\ UNCHANGED <<nvs, holder, restarts, failures, accepted>>

\* MUTANT: without the limit.
WriteRetryUnbounded ==
  /\ retryRead # None
  /\ nvs' = [nvs EXCEPT !.recv_retry = retryRead + 1]
  /\ retryRead' = None
  /\ UNCHANGED <<holder, restarts, failures, accepted>>

\* ... and write one more, up to the limit.
WriteRetry ==
  /\ retryRead # None
  /\ nvs' = [nvs EXCEPT !.recv_retry = IF retryRead < RetryLimit THEN retryRead + 1
                                       ELSE retryRead]
  /\ retryRead' = None
  /\ UNCHANGED <<holder, restarts, failures, accepted>>

-----------------------------------------------------------------------------
\* Power loss, KICK, the restart after provisioning: what is in NVS stays.
Restart ==
  /\ restarts < MaxRestarts
  /\ restarts' = restarts + 1
  /\ holder' = None /\ retryRead' = None
  /\ UNCHANGED <<nvs, failures, accepted>>

Next ==
  \/ \E c \in Config : StageBegin(c)
  \/ \E req \in Requests, ver \in Versions : PromoteBegin(req, ver)
  \/ \E c \in Creds : SaveBegin(c)
  \/ ClearBegin
  \/ Write \/ Commit \/ CallFails
  \/ \E value \in {1, None} : SetRecovery(value)
  \/ ReadRetry \/ WriteRetry
  \/ Restart

Spec == Init /\ [][Next]_vars

-----------------------------------------------------------------------------
(* Properties. *)

Kinds  == {"stage", "promote", "save", "clear"}
Orders == {StageOrder, PromoteOrder, SaveOrder, ClearOrder}

\* Every key holds a value of its type or is absent.
TypeOK ==
  /\ nvs \in Nvs
  /\ holder # None =>
       /\ holder.kind \in Kinds
       /\ holder.config \in Config \cup {None}
       /\ Len(holder.order) <= Len(PromoteOrder)
  /\ retryRead \in Counts \cup {None}
  /\ accepted \in Config \cup {None}

\* The slots as a reader finds them.
CurrentSlot   == IF CurrentPresent(nvs) THEN nvs.sta_ssid ELSE None
CandidateSlot == IF CandidateError(nvs) = "ok"
                 THEN [cred |-> nvs.cand_ssid, req |-> nvs.cand_req, ver |-> nvs.cand_ver]
                 ELSE None
ActiveSlot    == IF ActivePresent(nvs) THEN [req |-> nvs.active_req, ver |-> nvs.active_ver]
                 ELSE None

Slots == INSTANCE WifiSlots WITH current   <- CurrentSlot,
                                 candidate <- CandidateSlot,
                                 active    <- ActiveSlot

\* With transactional commits the keys implement the two slots of the header:
\* every operation takes effect whole, at its commit, or not at all, whichever
\* call fails and whenever power is lost.
ImplementsSlots == Slots!Spec

\* Every slot is whole: no password of another network, no identity without its
\* version, no load that fails with ESP_ERR_INVALID_STATE.
SlotsWhole ==
  /\ nvs.sta_ssid = nvs.sta_password
  /\ nvs.cand_ssid = nvs.cand_pass
  /\ CandidateError(nvs) # "invalid_state"
  /\ ActiveError(nvs) # "invalid_state"

\* Even with writes that take effect one by one: a configuration reported stored
\* stays readable, as the candidate or as the promoted current one, through
\* interrupted promotions, failed calls and restarts, until it is to be replaced.
AcceptedSurvives ==
  accepted # None =>
    \/ /\ nvs.cand_ssid = accepted.cred /\ nvs.cand_pass = accepted.cred
       /\ nvs.cand_req = accepted.req /\ nvs.cand_ver = accepted.ver
    \/ /\ nvs.sta_ssid = accepted.cred /\ nvs.sta_password = accepted.cred
       /\ nvs.active_req = accepted.req /\ nvs.active_ver = accepted.ver

\* The version in use never goes back, whatever was interrupted before: only
\* erasing it, for credentials of the portal or none, starts over.
NoVersionRollback == [][
  nvs.active_ver # None /\ nvs'.active_ver # None => nvs'.active_ver >= nvs.active_ver ]_vars

\* The declaration of app_storage_promote_candidate_wifi_config, "one commit
\* completes the promotion atomically", and the comment above its nvs_commit: a
\* promotion replaces the SSID and the password of current together, or neither.
PromotionAtomic == [][
  (holder # None /\ holder.kind = "promote" /\ holder' = None) =>
    (nvs'.sta_ssid = holder.writes.sta_ssid <=> nvs'.sta_password = holder.writes.sta_password) ]_vars

=============================================================================
