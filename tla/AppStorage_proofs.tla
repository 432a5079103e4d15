--------------------------- MODULE AppStorage_proofs ---------------------------
(***************************************************************************)
(* AppStorage implements WifiSlots if the commits of NVS are atomic, for   *)
(* every set of networks, requests and versions and any number of failing  *)
(* calls and restarts.                                                     *)
(*                                                                         *)
(* Until its commit an operation changes no slot, and the mutex keeps the  *)
(* slots as they were when it decided: HolderOK states that the decision   *)
(* still stands.  So Commit maps to the abstract operation, and every      *)
(* other step to a stutter.                                                *)
(***************************************************************************)
EXTENDS AppStorage, TLAPS

USE AppStorageAssumption

\* The holder of the mutex, with its decision still valid for what NVS holds.
StageStands == /\ holder.kind = "stage" /\ holder.config \in Config
               /\ holder.writes = StageWrites(holder.config)
               /\ StageResult(nvs, holder.config) = "stored"
PromoteStands == /\ holder.kind = "promote"
                 /\ CandidateError(nvs) = "ok"
                 /\ holder.writes = PromoteWrites(nvs)
SaveStands  == holder.kind = "save" /\ \E c \in Creds : holder.writes = SaveWrites(c)
ClearStands == holder.kind = "clear" /\ holder.writes = ClearWrites

HolderOK == holder # None =>
  /\ holder = Operation(holder.kind, holder.order, holder.writes, holder.config)
  /\ StageStands \/ PromoteStands \/ SaveStands \/ ClearStands

IInv == /\ nvs \in Nvs /\ retryRead \in Counts \cup {None}
        /\ SlotsWhole
        /\ HolderOK

\* The keys the slots are made of.
SlotKeys == {"sta_ssid", "sta_password", "cand_ssid", "cand_pass", "cand_req",
             "cand_ver", "active_req", "active_ver"}
SameSlots(n) == \A k \in SlotKeys : n[k] = nvs[k]

\* What an operation decides, and what a reader finds, depends on those keys only.
LEMMA SlotFrame ==
  ASSUME IInv, NEW n, SameSlots(n), nvs' = n
  PROVE  /\ UNCHANGED <<CurrentSlot, CandidateSlot, ActiveSlot>>
         /\ SlotsWhole'
         /\ UNCHANGED holder => HolderOK'
<1>1. /\ n.sta_ssid = nvs.sta_ssid /\ n.sta_password = nvs.sta_password
      /\ n.cand_ssid = nvs.cand_ssid /\ n.cand_pass = nvs.cand_pass
      /\ n.cand_req = nvs.cand_req /\ n.cand_ver = nvs.cand_ver
      /\ n.active_req = nvs.active_req /\ n.active_ver = nvs.active_ver
  BY DEF SameSlots, SlotKeys
<1>2. UNCHANGED <<CurrentSlot, CandidateSlot, ActiveSlot>>
  BY <1>1 DEF CurrentSlot, CurrentPresent, CandidateSlot, CandidateError, ActiveSlot,
              ActivePresent
<1>3. SlotsWhole'
  BY <1>1 DEF IInv, SlotsWhole, CandidateError, ActiveError
<1>4. ASSUME UNCHANGED holder PROVE HolderOK'
  <2>1. CandidateError(n) = CandidateError(nvs)
    BY <1>1 DEF CandidateError
  <2>2. PromoteWrites(n) = PromoteWrites(nvs)
    BY <1>1 DEF PromoteWrites
  <2>3. \A c : StageResult(n, c) = StageResult(nvs, c)
    BY <1>1, <2>1 DEF StageResult, Highest, ActiveError, ActivePresent
  <2> QED
    BY <1>4, <2>1, <2>2, <2>3 DEF IInv, HolderOK, StageStands, PromoteStands,
                                  SaveStands, ClearStands
<1> QED BY <1>2, <1>3, <1>4

-----------------------------------------------------------------------------
(* The invariant. *)

\* What a commit of each kind leaves in the keys.
LEMMA CommitStage ==
  ASSUME NEW n \in Nvs, NEW c \in Config
  PROVE  LET o == Over(n, StageWrites(c)) IN
         /\ o \in Nvs
         /\ o.cand_ssid = c.cred /\ o.cand_pass = c.cred /\ o.cand_req = c.req
         /\ o.cand_ver = c.ver
         /\ o.sta_ssid = n.sta_ssid /\ o.sta_password = n.sta_password
         /\ o.active_req = n.active_req /\ o.active_ver = n.active_ver
BY DEF Over, Nvs, StageWrites, Config

LEMMA CommitPromote ==
  ASSUME NEW n \in Nvs, CandidateError(n) = "ok", n.cand_ssid = n.cand_pass
  PROVE  LET o == Over(n, PromoteWrites(n)) IN
         /\ o \in Nvs
         /\ o.cand_ssid = None /\ o.cand_pass = None /\ o.cand_req = None /\ o.cand_ver = None
         /\ o.sta_ssid = n.cand_ssid /\ o.sta_password = n.cand_ssid
         /\ o.active_req = n.cand_req /\ o.active_ver = n.cand_ver
BY DEF Over, Nvs, PromoteWrites, CandidateError

LEMMA CommitSave ==
  ASSUME NEW n \in Nvs, NEW c \in Creds
  PROVE  LET o == Over(n, SaveWrites(c)) IN
         /\ o \in Nvs
         /\ o.cand_ssid = None /\ o.cand_pass = None /\ o.cand_req = None /\ o.cand_ver = None
         /\ o.sta_ssid = c /\ o.sta_password = c
         /\ o.active_req = None /\ o.active_ver = None
BY DEF Over, Nvs, SaveWrites

LEMMA CommitClear ==
  ASSUME NEW n \in Nvs
  PROVE  LET o == Over(n, ClearWrites) IN
         /\ o \in Nvs
         /\ o.cand_ssid = n.cand_ssid /\ o.cand_pass = n.cand_pass
         /\ o.cand_req = n.cand_req /\ o.cand_ver = n.cand_ver
         /\ o.sta_ssid = None /\ o.sta_password = None
         /\ o.active_req = None /\ o.active_ver = None
BY DEF Over, Nvs, ClearWrites

LEMMA InitOK == Init => IInv
BY DEF Init, IInv, Nvs, SlotsWhole, CandidateError, ActiveError, HolderOK

\* Taking the mutex: the decision stands, for it was made of what NVS holds.
LEMMA BeginSteps ==
  ASSUME IInv
  PROVE  /\ \A c \in Config : StageBegin(c) => IInv'
         /\ \A req \in Requests, ver \in Versions : PromoteBegin(req, ver) => IInv'
         /\ \A c \in Creds : SaveBegin(c) => IInv'
         /\ ClearBegin => IInv'
<1>1. ASSUME UNCHANGED <<nvs, retryRead>> PROVE (IInv' <=> HolderOK')
  BY <1>1 DEF IInv, SlotsWhole
<1>2. ASSUME NEW c \in Config, StageBegin(c) PROVE HolderOK'
  BY <1>2 DEF StageBegin, HolderOK, StageStands, Operation
<1>3. ASSUME NEW req \in Requests, NEW ver \in Versions, PromoteBegin(req, ver)
      PROVE  HolderOK'
  BY <1>3 DEF PromoteBegin, HolderOK, PromoteStands, Operation
<1>4. ASSUME NEW c \in Creds, SaveBegin(c) PROVE HolderOK'
  BY <1>4 DEF SaveBegin, HolderOK, SaveStands, Operation
<1>5. ASSUME ClearBegin PROVE HolderOK'
  BY <1>5 DEF ClearBegin, HolderOK, ClearStands, Operation
<1> QED
  BY <1>1, <1>2, <1>3, <1>4, <1>5 DEF StageBegin, PromoteBegin, SaveBegin, ClearBegin

\* Until the commit nothing is visible; an operation that ends without it leaves
\* nothing behind.
LEMMA CallSteps ==
  ASSUME IInv, Transactional, Write \/ CallFails \/ Restart
  PROVE  IInv' /\ UNCHANGED nvs
<1>1. UNCHANGED nvs
  BY DEF Write, CallFails, Restart
<1>2. CASE Write
  <2>1. holder # None /\ holder' = [holder EXCEPT !.order = Tail(@)]
    BY <1>2 DEF Write
  <2>2. /\ holder = Operation(holder.kind, holder.order, holder.writes, holder.config)
        /\ StageStands \/ PromoteStands \/ SaveStands \/ ClearStands
    BY <2>1 DEF IInv, HolderOK
  <2>3. holder' = Operation(holder.kind, Tail(holder.order), holder.writes, holder.config)
    BY <2>1, <2>2 DEF Operation
  <2>4. /\ holder'.kind = holder.kind /\ holder'.writes = holder.writes
        /\ holder'.config = holder.config /\ holder'.order = Tail(holder.order)
    BY <2>3 DEF Operation
  <2>5. HolderOK'
    BY <1>1, <2>2, <2>3, <2>4 DEF HolderOK, StageStands, PromoteStands, SaveStands, ClearStands
  <2> QED BY <1>1, <1>2, <2>5 DEF IInv, SlotsWhole, Write
<1>3. CASE CallFails
  BY <1>1, <1>3 DEF IInv, SlotsWhole, HolderOK, CallFails
<1>4. CASE Restart
  BY <1>1, <1>4 DEF IInv, SlotsWhole, HolderOK, Restart
<1> QED BY <1>1, <1>2, <1>3, <1>4

\* The mark and the counter are no slots.
LEMMA RecoverySteps ==
  ASSUME IInv, (\E value \in {1, None} : SetRecovery(value)) \/ ReadRetry \/ WriteRetry
  PROVE  IInv' /\ UNCHANGED <<CurrentSlot, CandidateSlot, ActiveSlot>>
<1>1. UNCHANGED holder
  BY DEF SetRecovery, ReadRetry, WriteRetry
<1>2. nvs' \in Nvs /\ SameSlots(nvs') /\ retryRead' \in Counts \cup {None}
  <2>1. ASSUME NEW value \in {1, None}, SetRecovery(value)
        PROVE  nvs' \in Nvs /\ SameSlots(nvs') /\ retryRead' \in Counts \cup {None}
    BY <2>1 DEF IInv, SetRecovery, Nvs, SameSlots, SlotKeys
  <2>2. CASE ReadRetry
    BY <2>2 DEF IInv, ReadRetry, Nvs, SameSlots, Counts
  <2>3. CASE WriteRetry
    <3>1. PICK v \in Counts : nvs' = [nvs EXCEPT !.recv_retry = v]
      BY <2>3 DEF WriteRetry, IInv, Counts
    <3> QED BY <2>3, <3>1 DEF IInv, WriteRetry, Nvs, SameSlots, SlotKeys
  <2> QED BY <2>1, <2>2, <2>3
<1> QED BY <1>1, <1>2, SlotFrame DEF IInv

-----------------------------------------------------------------------------
(* The refinement. *)

LEMMA InitMaps == Init => Slots!Init
BY DEF Init, Slots!Init, CurrentSlot, CurrentPresent, CandidateSlot, CandidateError,
       ActiveSlot, ActivePresent

\* A candidate that can be read, and an identity, are not an empty slot.
LEMMA SlotsNotEmpty ==
  ASSUME nvs \in Nvs
  PROVE  /\ CandidateError(nvs) = "ok" => CandidateSlot # None /\ CandidateSlot \in Config
         /\ CandidateError(nvs) # "ok" => CandidateSlot = None
BY DEF CandidateSlot, CandidateError, Nvs, Config

\* The commit is the abstract operation.
LEMMA CommitMaps ==
  ASSUME IInv, Transactional, Commit
  PROVE  IInv' /\ Slots!Next
<1>1. /\ holder # None /\ holder' = None /\ UNCHANGED retryRead
      /\ nvs' = Over(nvs, holder.writes)
  BY DEF Commit
<1>2. nvs \in Nvs /\ SlotsWhole /\ HolderOK'
  BY <1>1 DEF IInv, HolderOK
<1>3. CASE StageStands
  <2> DEFINE c == holder.config
  <2>1. /\ c \in Config /\ c.ver \in Nat \ {0} /\ c.cred # None /\ c.req # None
        /\ c.ver # None /\ StageResult(nvs, c) = "stored"
    BY <1>3 DEF StageStands, Config
  <2>2. /\ nvs' \in Nvs
        /\ nvs'.cand_ssid = c.cred /\ nvs'.cand_pass = c.cred /\ nvs'.cand_req = c.req
        /\ nvs'.cand_ver = c.ver
        /\ nvs'.sta_ssid = nvs.sta_ssid /\ nvs'.sta_password = nvs.sta_password
        /\ nvs'.active_req = nvs.active_req /\ nvs'.active_ver = nvs.active_ver
    BY <1>1, <1>2, <1>3, CommitStage DEF StageStands
  <2>3. SlotsWhole'
    BY <1>2, <2>1, <2>2 DEF SlotsWhole, CandidateError, ActiveError
  <2>4. CandidateSlot' = c /\ UNCHANGED <<CurrentSlot, ActiveSlot>>
    BY <2>1, <2>2 DEF CandidateSlot, CandidateError, CurrentSlot, CurrentPresent,
                      ActiveSlot, ActivePresent, Config
  <2>5. /\ CandidateError(nvs) = "ok" => nvs.cand_ver < c.ver
        /\ ActivePresent(nvs) => nvs.active_ver < c.ver
    <3>1. ~ (c.ver < Highest(nvs)) /\ c.ver # Highest(nvs)
      BY <2>1 DEF StageResult
    <3>2. CandidateError(nvs) = "ok" => nvs.cand_ver \in Nat
      BY <1>2 DEF CandidateError, Nvs
    <3>3. ActivePresent(nvs) => nvs.active_ver \in Nat
      BY <1>2 DEF ActivePresent, Nvs
    <3>4. c.ver \in Nat
      BY <2>1
    <3> HIDE DEF c
    <3> QED BY <3>1, <3>2, <3>3, <3>4 DEF Highest
  <2>6. Slots!Newest(c)
    BY <1>2, <2>5 DEF Slots!Newest, CandidateSlot, ActiveSlot
  <2>7. c \in Slots!Config
    BY <2>1 DEF Config, Slots!Config
  <2> QED
    BY <1>1, <1>2, <2>2, <2>3, <2>4, <2>6, <2>7 DEF IInv, Slots!Next, Slots!Stage
<1>4. CASE PromoteStands
  <2>1. CandidateError(nvs) = "ok" /\ nvs.cand_ssid = nvs.cand_pass
    BY <1>2, <1>4 DEF PromoteStands, SlotsWhole
  <2>2. /\ nvs' \in Nvs
        /\ nvs'.cand_ssid = None /\ nvs'.cand_pass = None /\ nvs'.cand_req = None
        /\ nvs'.cand_ver = None
        /\ nvs'.sta_ssid = nvs.cand_ssid /\ nvs'.sta_password = nvs.cand_ssid
        /\ nvs'.active_req = nvs.cand_req /\ nvs'.active_ver = nvs.cand_ver
    BY <1>1, <1>2, <1>4, <2>1, CommitPromote DEF PromoteStands
  <2>3. SlotsWhole'
    BY <2>1, <2>2 DEF SlotsWhole, CandidateError, ActiveError
  <2>4. /\ CandidateSlot = [cred |-> nvs.cand_ssid, req |-> nvs.cand_req, ver |-> nvs.cand_ver]
        /\ CandidateSlot # None
    BY <1>2, <2>1, SlotsNotEmpty DEF CandidateSlot
  <2>5. /\ CandidateSlot' = None /\ CurrentSlot' = nvs.cand_ssid
        /\ ActiveSlot' = [req |-> nvs.cand_req, ver |-> nvs.cand_ver]
    BY <2>1, <2>2 DEF CandidateSlot, CandidateError, CurrentSlot, CurrentPresent,
                      ActiveSlot, ActivePresent
  <2>6. Slots!Promote
    BY <2>4, <2>5 DEF Slots!Promote, Slots!IdOf
  <2> QED BY <1>1, <1>2, <2>2, <2>3, <2>6 DEF IInv, Slots!Next
<1>5. CASE SaveStands
  <2>1. PICK c \in Creds : holder.writes = SaveWrites(c)
    BY <1>5 DEF SaveStands
  <2>2. /\ nvs' \in Nvs
        /\ nvs'.cand_ssid = None /\ nvs'.cand_pass = None /\ nvs'.cand_req = None
        /\ nvs'.cand_ver = None
        /\ nvs'.sta_ssid = c /\ nvs'.sta_password = c
        /\ nvs'.active_req = None /\ nvs'.active_ver = None
    BY <1>1, <1>2, <2>1, CommitSave
  <2>3. SlotsWhole'
    BY <2>2 DEF SlotsWhole, CandidateError, ActiveError
  <2>4. Slots!Save(c)
    BY <2>2 DEF Slots!Save, CandidateSlot, CandidateError, CurrentSlot, CurrentPresent,
                ActiveSlot, ActivePresent
  <2> QED BY <1>1, <1>2, <2>2, <2>3, <2>4 DEF IInv, Slots!Next
<1>6. CASE ClearStands
  <2>1. /\ nvs' \in Nvs
        /\ nvs'.cand_ssid = nvs.cand_ssid /\ nvs'.cand_pass = nvs.cand_pass
        /\ nvs'.cand_req = nvs.cand_req /\ nvs'.cand_ver = nvs.cand_ver
        /\ nvs'.sta_ssid = None /\ nvs'.sta_password = None
        /\ nvs'.active_req = None /\ nvs'.active_ver = None
    BY <1>1, <1>2, <1>6, CommitClear DEF ClearStands
  <2>2. SlotsWhole'
    BY <1>2, <2>1 DEF SlotsWhole, CandidateError, ActiveError
  <2>3. Slots!Clear
    BY <2>1 DEF Slots!Clear, CandidateSlot, CandidateError, CurrentSlot, CurrentPresent,
                ActiveSlot, ActivePresent
  <2> QED BY <1>1, <1>2, <2>1, <2>2, <2>3 DEF IInv, Slots!Next
<1> QED BY <1>1, <1>3, <1>4, <1>5, <1>6 DEF IInv, HolderOK

\* Every step keeps the invariant and maps to an abstract step or a stutter.
LEMMA NextMaps ==
  ASSUME IInv, Transactional, [Next]_vars
  PROVE  IInv' /\ [Slots!Next]_(Slots!slots)
<1>1. ASSUME UNCHANGED nvs PROVE UNCHANGED Slots!slots
  BY <1>1 DEF Slots!slots, CurrentSlot, CurrentPresent, CandidateSlot, CandidateError,
              ActiveSlot, ActivePresent
<1>2. ASSUME \/ \E c \in Config : StageBegin(c)
             \/ \E req \in Requests, ver \in Versions : PromoteBegin(req, ver)
             \/ \E c \in Creds : SaveBegin(c)
             \/ ClearBegin
      PROVE  IInv' /\ UNCHANGED nvs
  BY <1>2, BeginSteps DEF StageBegin, PromoteBegin, SaveBegin, ClearBegin
<1>3. ASSUME Write \/ CallFails \/ Restart PROVE IInv' /\ UNCHANGED nvs
  BY <1>3, CallSteps
<1>4. ASSUME Commit PROVE IInv' /\ Slots!Next
  BY <1>4, CommitMaps
<1>5. ASSUME (\E value \in {1, None} : SetRecovery(value)) \/ ReadRetry \/ WriteRetry
      PROVE  IInv' /\ UNCHANGED Slots!slots
  BY <1>5, RecoverySteps DEF Slots!slots
<1>6. ASSUME UNCHANGED vars PROVE IInv' /\ UNCHANGED nvs
  BY <1>6 DEF vars, IInv, SlotsWhole, HolderOK, StageStands, PromoteStands, SaveStands,
              ClearStands
<1> QED BY <1>1, <1>2, <1>3, <1>4, <1>5, <1>6 DEF Next

\* The slots of the header are never torn, if commits are atomic: no password of
\* another network, no identity without its version (app_storage.h).
THEOREM WholeSlots == Transactional => (Spec => []SlotsWhole)
<1> SUFFICES ASSUME Transactional PROVE Spec => []SlotsWhole
  OBVIOUS
<1>1. IInv /\ [Next]_vars => IInv'
  BY NextMaps
<1>2. IInv => SlotsWhole
  BY DEF IInv
<1> QED BY InitOK, <1>1, <1>2, PTL DEF Spec

\* app_storage.c implements app_storage.h, if commits are atomic: whichever call
\* fails and whenever the device restarts, save, stage, promote and clear take
\* effect whole or not at all, and a candidate only if it is the newest.
THEOREM Refinement == Transactional => (Spec => ImplementsSlots)
<1> SUFFICES ASSUME Transactional PROVE Spec => ImplementsSlots
  OBVIOUS
<1>1. IInv /\ [Next]_vars => IInv' /\ [Slots!Next]_(Slots!slots)
  BY NextMaps
<1> QED BY InitOK, InitMaps, <1>1, PTL DEF Spec, ImplementsSlots, Slots!Spec


=============================================================================
