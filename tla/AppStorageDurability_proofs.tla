---------------------- MODULE AppStorageDurability_proofs ----------------------
(***************************************************************************)
(* What AppStorage keeps even if every NVS write is durable as it is made: *)
(* an accepted configuration, and the order of the versions.               *)
(*                                                                         *)
(* Both rest on the order of the calls.  The invariant relates the calls   *)
(* an operation has left to what NVS holds: Done counts the ones that have *)
(* taken effect, none before the commit if commits are atomic.             *)
(***************************************************************************)
EXTENDS AppStorage, TLAPS, SequenceTheorems

USE AppStorageAssumption

-----------------------------------------------------------------------------
(* Keys, values and orders. *)

Values == [sta_ssid |-> Creds \cup {None}, sta_password |-> Creds \cup {None},
           cand_ssid |-> Creds \cup {None}, cand_pass |-> Creds \cup {None},
           cand_req |-> Requests \cup {None}, cand_ver |-> Versions \cup {None},
           active_req |-> Requests \cup {None}, active_ver |-> Versions \cup {None},
           recv_trig |-> {1, None}, recv_retry |-> Counts \cup {None}]
Keys == DOMAIN Values

\* The writes an operation may hold.
WritesTyped(w) == \A k \in DOMAIN w : k \in Keys /\ w[k] \in Values[k]

LEMMA NvsValues ==
  \A n \in Nvs : DOMAIN n = Keys /\ \A k \in Keys : n[k] \in Values[k]
BY DEF Nvs, Values, Keys

\* One call, and all calls of an operation at once, keep the keys' types.
LEMMA WriteKey ==
  ASSUME NEW n \in Nvs, NEW k \in Keys, NEW v \in Values[k]
  PROVE  [n EXCEPT ![k] = v] \in Nvs
BY DEF Nvs, Values, Keys

LEMMA OverTyped ==
  ASSUME NEW n \in Nvs, NEW w, WritesTyped(w)
  PROVE  Over(n, w) \in Nvs
<1> DEFINE o == Over(n, w)
<1>1. o = [k \in Keys |-> IF k \in DOMAIN w THEN w[k] ELSE n[k]]
  BY NvsValues DEF Over
<1>2. \A k \in Keys : o[k] \in Values[k]
  BY <1>1, NvsValues DEF WritesTyped
<1>3. o = [k \in Keys |-> o[k]]
  BY <1>1
<1> HIDE DEF o
<1>4. /\ o.sta_ssid \in Creds \cup {None} /\ o.sta_password \in Creds \cup {None}
      /\ o.cand_ssid \in Creds \cup {None} /\ o.cand_pass \in Creds \cup {None}
      /\ o.cand_req \in Requests \cup {None} /\ o.cand_ver \in Versions \cup {None}
      /\ o.active_req \in Requests \cup {None} /\ o.active_ver \in Versions \cup {None}
      /\ o.recv_trig \in {1, None} /\ o.recv_retry \in Counts \cup {None}
  BY <1>2 DEF Keys, Values
<1>5. o \in Nvs
  BY <1>3, <1>4 DEF Nvs, Keys, Values
<1> QED BY <1>5 DEF o

\* q is what is left of the order ord.
Suffix(q, ord) == /\ q \in Seq(Keys) /\ Len(q) <= Len(ord)
                  /\ \A i \in 1..Len(q) : q[i] = ord[Len(ord) - Len(q) + i]

LEMMA SuffixTail ==
  ASSUME NEW q, NEW ord \in Seq(Keys), Suffix(q, ord), q # <<>>
  PROVE  /\ Len(q) \in 1..Len(ord)
         /\ Head(q) = ord[Len(ord) - Len(q) + 1]
         /\ Suffix(Tail(q), ord) /\ Len(Tail(q)) = Len(q) - 1
<1>1. /\ Head(q) = q[1] /\ Tail(q) \in Seq(Keys) /\ Len(Tail(q)) = Len(q) - 1
      /\ \A i \in 1..(Len(q) - 1) : Tail(q)[i] = q[i + 1]
  BY HeadTailProperties DEF Suffix
<1>2. Len(q) \in Nat \ {0} /\ Len(ord) \in Nat
  BY EmptySeq DEF Suffix
<1>3. Len(q) <= Len(ord) /\ \A i \in 1..Len(q) : q[i] = ord[Len(ord) - Len(q) + i]
  BY DEF Suffix
<1>4. \A i \in 1..(Len(q) - 1) : Tail(q)[i] = ord[Len(ord) - (Len(q) - 1) + i]
  <2> SUFFICES ASSUME NEW i \in 1..(Len(q) - 1)
               PROVE  Tail(q)[i] = ord[Len(ord) - (Len(q) - 1) + i]
    OBVIOUS
  <2>1. i + 1 \in 1..Len(q)
    BY <1>2
  <2>2. Len(ord) - Len(q) + (i + 1) = Len(ord) - (Len(q) - 1) + i
    BY <1>2
  <2> QED BY <1>1, <1>3, <2>1, <2>2
<1>5. Suffix(Tail(q), ord)
  BY <1>1, <1>2, <1>3, <1>4 DEF Suffix
<1>6. Head(q) = ord[Len(ord) - Len(q) + 1] /\ Len(q) \in 1..Len(ord)
  BY <1>1, <1>2, <1>3
<1> QED BY <1>1, <1>5, <1>6

LEMMA OrderKeys ==
  /\ StageOrder \in Seq(Keys) /\ Len(StageOrder) = 4
  /\ PromoteOrder \in Seq(Keys) /\ Len(PromoteOrder) = 10
  /\ SaveOrder \in Seq(Keys) /\ Len(SaveOrder) = 10
  /\ ClearOrder \in Seq(Keys) /\ Len(ClearOrder) = 4
<1>1. Len(StageOrder) = 4
  BY DEF StageOrder, Keys, Values
<1>2. Len(PromoteOrder) = 10
  BY DEF PromoteOrder, Keys, Values
<1>3. Len(SaveOrder) = 10 /\ Len(ClearOrder) = 4
  BY DEF SaveOrder, ClearOrder, Keys, Values
<1>4. StageOrder \in Seq(Keys)
  BY DEF StageOrder, Keys, Values
<1>5. PromoteOrder \in Seq(Keys)
  BY DEF PromoteOrder, Keys, Values
<1>6. SaveOrder \in Seq(Keys) /\ ClearOrder \in Seq(Keys)
  BY DEF SaveOrder, ClearOrder, Keys, Values
<1> QED BY <1>1, <1>2, <1>3, <1>4, <1>5, <1>6

-----------------------------------------------------------------------------
(* The invariant. *)

\* How many calls of ord, the holder's order, have taken effect.
Done(ord) == IF Transactional THEN 0 ELSE Len(ord) - Len(holder.order)

InCandidate(c) == /\ nvs.cand_ssid = c.cred /\ nvs.cand_pass = c.cred
                  /\ nvs.cand_req = c.req /\ nvs.cand_ver = c.ver
InCurrent(c)   == /\ nvs.sta_ssid = c.cred /\ nvs.sta_password = c.cred
                  /\ nvs.active_req = c.req /\ nvs.active_ver = c.ver

\* A staging version is newer than the one in use; nothing accepted waits.
StageHeld ==
  /\ holder.kind = "stage" /\ Suffix(holder.order, StageOrder)
  /\ accepted = None
  /\ holder.config \in Config /\ holder.writes = StageWrites(holder.config)
  /\ nvs.active_ver # None => nvs.active_ver < holder.config.ver
  /\ \A i \in 1..4 : i <= Done(StageOrder) =>
       nvs[StageOrder[i]] = holder.writes[StageOrder[i]]

\* Before the fifth call takes effect the candidate is whole; after the fourth
\* the current slot and its identity are.
PromoteHeld ==
  /\ holder.kind = "promote" /\ Suffix(holder.order, PromoteOrder)
  /\ holder.config = None
  /\ \E n \in Nvs : CandidateError(n) = "ok" /\ holder.writes = PromoteWrites(n)
  /\ accepted # None =>
       /\ holder.writes.sta_ssid = accepted.cred /\ holder.writes.sta_password = accepted.cred
       /\ holder.writes.active_req = accepted.req /\ holder.writes.active_ver = accepted.ver
  /\ Done(PromoteOrder) <= 4 =>
       /\ nvs.cand_ssid = holder.writes.sta_ssid /\ nvs.cand_pass = holder.writes.sta_password
       /\ nvs.cand_req = holder.writes.active_req /\ nvs.cand_ver = holder.writes.active_ver
  /\ \A i \in 1..5 : i <= Done(PromoteOrder) =>
       nvs[PromoteOrder[i]] = holder.writes[PromoteOrder[i]]

SaveHeld  == /\ holder.kind = "save" /\ Suffix(holder.order, SaveOrder)
             /\ holder.config = None /\ accepted = None
             /\ \E c \in Creds : holder.writes = SaveWrites(c)
ClearHeld == /\ holder.kind = "clear" /\ Suffix(holder.order, ClearOrder)
             /\ holder.config = None /\ accepted = None
             /\ holder.writes = ClearWrites

Shape == holder = Operation(holder.kind, holder.order, holder.writes, holder.config)
Held  == StageHeld \/ PromoteHeld \/ SaveHeld \/ ClearHeld

\* Whatever was interrupted, a version waiting is not older than the one in use.
VersionOrder == nvs.cand_ver # None /\ nvs.active_ver # None => nvs.active_ver <= nvs.cand_ver

\* A candidate that can be read, while an accepted configuration waits, is that one.
AcceptedIsCandidate == accepted # None /\ CandidateError(nvs) = "ok" => InCandidate(accepted)

Kept == VersionOrder /\ AcceptedIsCandidate /\ AcceptedSurvives

DInv == /\ nvs \in Nvs /\ retryRead \in Counts \cup {None} /\ accepted \in Config \cup {None}
        /\ Kept
        /\ holder # None => Shape /\ Held

\* What NoVersionRollback says of a step.
Forward == nvs.active_ver # None /\ nvs'.active_ver # None => nvs'.active_ver >= nvs.active_ver

LEMMA UnchangedForward ==
  ASSUME nvs \in Nvs, nvs'.active_ver \in {None, nvs.active_ver}
  PROVE  Forward
<1>1. nvs.active_ver # None => nvs.active_ver \in Nat
  BY DEF Nvs
<1> QED BY <1>1 DEF Forward

LEMMA InitDurable == Init => DInv
BY DEF Init, DInv, Nvs, Kept, VersionOrder, AcceptedIsCandidate, AcceptedSurvives

-----------------------------------------------------------------------------
(* Beginning an operation: nothing of it is done. *)

LEMMA WholeOrder ==
  ASSUME NEW ord \in Seq(Keys) PROVE Suffix(ord, ord)
<1>1. Len(ord) \in Nat
  BY LenProperties
<1> QED BY <1>1 DEF Suffix

LEMMA StageBeginOK ==
  ASSUME DInv, NEW c \in Config, StageBegin(c)
  PROVE  DInv'
<1>1. /\ holder' = Operation("stage", StageOrder, StageWrites(c), c)
      /\ accepted' = None /\ UNCHANGED <<nvs, retryRead>>
      /\ StageResult(nvs, c) = "stored" /\ nvs \in Nvs
  BY DEF StageBegin, DInv
<1>2. /\ holder'.kind = "stage" /\ holder'.order = StageOrder
      /\ holder'.writes = StageWrites(c) /\ holder'.config = c
  BY <1>1 DEF Operation
<1>3. nvs.active_ver # None => nvs.active_ver < c.ver
  <2>1. ActiveError(nvs) # "invalid_state" /\ ~ (c.ver < Highest(nvs)) /\ c.ver # Highest(nvs)
    BY <1>1 DEF StageResult
  <2>2. ASSUME nvs.active_ver # None PROVE ActivePresent(nvs) /\ nvs.active_ver \in Nat
    BY <1>1, <2>1, <2>2 DEF ActiveError, ActivePresent, Nvs
  <2>3. c.ver \in Nat
    BY DEF Config
  <2>4. CandidateError(nvs) = "ok" => nvs.cand_ver \in Nat
    BY <1>1 DEF CandidateError, Nvs
  <2> QED BY <2>1, <2>2, <2>3, <2>4 DEF Highest
<1>4. Suffix(StageOrder, StageOrder) /\ Done(StageOrder)' = 0
  BY <1>2, OrderKeys, WholeOrder DEF Done
<1>5. StageHeld'
  BY <1>1, <1>2, <1>3, <1>4 DEF StageHeld
<1>6. Shape'
  BY <1>1, <1>2 DEF Shape
<1>7. Kept'
  BY <1>1 DEF DInv, Kept, VersionOrder, AcceptedIsCandidate, AcceptedSurvives
<1> QED BY <1>1, <1>5, <1>6, <1>7 DEF DInv, Held

LEMMA PromoteBeginOK ==
  ASSUME DInv, NEW req \in Requests, NEW ver \in Versions, PromoteBegin(req, ver)
  PROVE  DInv'
<1>1. /\ holder' = Operation("promote", PromoteOrder, PromoteWrites(nvs), None)
      /\ UNCHANGED <<nvs, retryRead, accepted>>
      /\ CandidateError(nvs) = "ok" /\ nvs \in Nvs
  BY DEF PromoteBegin, DInv
<1>2. /\ holder'.kind = "promote" /\ holder'.order = PromoteOrder
      /\ holder'.writes = PromoteWrites(nvs) /\ holder'.config = None
  BY <1>1 DEF Operation
<1>3. Suffix(PromoteOrder, PromoteOrder) /\ Done(PromoteOrder)' = 0
  BY <1>2, OrderKeys, WholeOrder DEF Done
<1>4. /\ holder'.writes.sta_ssid = nvs.cand_ssid /\ holder'.writes.sta_password = nvs.cand_pass
      /\ holder'.writes.active_req = nvs.cand_req /\ holder'.writes.active_ver = nvs.cand_ver
  BY <1>2 DEF PromoteWrites
<1>5. accepted # None => InCandidate(accepted)
  BY <1>1 DEF DInv, Kept, AcceptedIsCandidate
<1>6. PromoteHeld'
  BY <1>1, <1>2, <1>3, <1>4, <1>5 DEF PromoteHeld, InCandidate
<1>7. Shape' /\ Kept'
  BY <1>1, <1>2 DEF Shape, DInv, Kept, VersionOrder, AcceptedIsCandidate,
                    AcceptedSurvives, InCandidate
<1> QED BY <1>1, <1>6, <1>7 DEF DInv, Held

LEMMA ReplaceBeginOK ==
  ASSUME DInv, (\E c \in Creds : SaveBegin(c)) \/ ClearBegin
  PROVE  DInv'
<1>1. accepted' = None /\ UNCHANGED <<nvs, retryRead>>
  BY DEF SaveBegin, ClearBegin
<1>2. Kept'
  BY <1>1 DEF DInv, Kept, VersionOrder, AcceptedIsCandidate, AcceptedSurvives
<1>3. ASSUME NEW c \in Creds, SaveBegin(c) PROVE SaveHeld' /\ Shape'
  <2>1. holder' = Operation("save", SaveOrder, SaveWrites(c), None)
    BY <1>3 DEF SaveBegin
  <2> QED BY <1>1, <2>1, OrderKeys, WholeOrder DEF SaveHeld, Shape, Operation
<1>4. ASSUME ClearBegin PROVE ClearHeld' /\ Shape'
  <2>1. holder' = Operation("clear", ClearOrder, ClearWrites, None)
    BY <1>4 DEF ClearBegin
  <2> QED BY <1>1, <2>1, OrderKeys, WholeOrder DEF ClearHeld, Shape, Operation
<1> QED BY <1>1, <1>2, <1>3, <1>4 DEF DInv, Held

-----------------------------------------------------------------------------
(* One call of an operation. *)

\* The keys after a write of key k.
LEMMA WriteFields ==
  ASSUME NEW n \in Nvs, NEW k \in Keys, NEW v, NEW m, m = [n EXCEPT ![k] = v]
  PROVE  /\ m.sta_ssid = (IF k = "sta_ssid" THEN v ELSE n.sta_ssid)
         /\ m.sta_password = (IF k = "sta_password" THEN v ELSE n.sta_password)
         /\ m.cand_ssid = (IF k = "cand_ssid" THEN v ELSE n.cand_ssid)
         /\ m.cand_pass = (IF k = "cand_pass" THEN v ELSE n.cand_pass)
         /\ m.cand_req = (IF k = "cand_req" THEN v ELSE n.cand_req)
         /\ m.cand_ver = (IF k = "cand_ver" THEN v ELSE n.cand_ver)
         /\ m.active_req = (IF k = "active_req" THEN v ELSE n.active_req)
         /\ m.active_ver = (IF k = "active_ver" THEN v ELSE n.active_ver)
BY DEF Nvs, Keys, Values

\* What every call does to the operation itself.
LEMMA WriteHolder ==
  ASSUME Shape, Write
  PROVE  /\ holder'.kind = holder.kind /\ holder'.writes = holder.writes
         /\ holder'.config = holder.config /\ holder'.order = Tail(holder.order)
         /\ Shape' /\ holder.order # <<>> /\ UNCHANGED <<retryRead, accepted>>
<1>1. /\ holder' = [holder EXCEPT !.order = Tail(@)] /\ holder.order # <<>>
      /\ UNCHANGED <<retryRead, accepted>>
  BY DEF Write
<1>2. holder' = Operation(holder.kind, Tail(holder.order), holder.writes, holder.config)
  BY <1>1 DEF Shape, Operation
<1> QED BY <1>1, <1>2 DEF Shape, Operation

\* Which call comes next, and what has taken effect after it.
LEMMA NextCall ==
  ASSUME Shape, Write, NEW ord \in Seq(Keys), Suffix(holder.order, ord),
         NEW j, j = Len(ord) - Len(holder.order) + 1
  PROVE  /\ j \in 1..Len(ord) /\ Suffix(holder'.order, ord)
         /\ Transactional => Done(ord) = 0 /\ Done(ord)' = 0 /\ UNCHANGED nvs
         /\ ~Transactional => /\ Done(ord) = j - 1 /\ Done(ord)' = j
                              /\ nvs' = [nvs EXCEPT ![ord[j]] = holder.writes[ord[j]]]
<1>1. Len(ord) \in Nat /\ Len(holder.order) \in 1..Len(ord)
  BY WriteHolder, SuffixTail, LenProperties
<1>2. /\ Head(holder.order) = ord[j] /\ Suffix(Tail(holder.order), ord)
      /\ Len(Tail(holder.order)) = Len(holder.order) - 1
  BY WriteHolder, SuffixTail
<1>3. holder'.order = Tail(holder.order)
  BY WriteHolder
<1>4. /\ Transactional => UNCHANGED nvs
      /\ ~Transactional => nvs' = [nvs EXCEPT ![ord[j]] = holder.writes[ord[j]]]
  BY <1>2 DEF Write
<1>5. j \in 1..Len(ord)
  BY <1>1
<1>6. Transactional => Done(ord) = 0 /\ Done(ord)' = 0
  BY DEF Done
<1>7. ~Transactional => Done(ord) = j - 1 /\ Done(ord)' = j
  BY <1>1, <1>2, <1>3 DEF Done
<1> QED BY <1>2, <1>3, <1>4, <1>5, <1>6, <1>7

LEMMA StageWriteOK ==
  ASSUME DInv, Shape, StageHeld, Write
  PROVE  nvs' \in Nvs /\ Kept' /\ StageHeld' /\ Forward
<1> DEFINE j == Len(StageOrder) - Len(holder.order) + 1
           c == holder.config
<1>1. /\ j \in 1..4 /\ Suffix(holder'.order, StageOrder)
      /\ Transactional => Done(StageOrder) = 0 /\ Done(StageOrder)' = 0 /\ UNCHANGED nvs
      /\ ~Transactional => /\ Done(StageOrder) = j - 1 /\ Done(StageOrder)' = j
                           /\ nvs' = [nvs EXCEPT ![StageOrder[j]] = holder.writes[StageOrder[j]]]
  BY NextCall, OrderKeys DEF StageHeld
<1>2. /\ holder'.kind = "stage" /\ holder'.writes = holder.writes /\ holder'.config = c
      /\ accepted' = None /\ accepted = None
  BY WriteHolder DEF StageHeld
<1>3. /\ nvs \in Nvs /\ c \in Config /\ c.ver \in Nat /\ VersionOrder
      /\ nvs.active_ver # None => nvs.active_ver < c.ver
  BY DEF DInv, Kept, StageHeld, Config
<1>4. /\ StageOrder[1] = "cand_ssid" /\ StageOrder[2] = "cand_pass"
      /\ StageOrder[3] = "cand_req" /\ StageOrder[4] = "cand_ver"
  BY DEF StageOrder
<1>5. /\ holder.writes.cand_ssid = c.cred /\ holder.writes.cand_pass = c.cred
      /\ holder.writes.cand_req = c.req /\ holder.writes.cand_ver = c.ver
  BY DEF StageHeld, StageWrites
<1>6. AcceptedIsCandidate' /\ AcceptedSurvives'
  BY <1>2 DEF AcceptedIsCandidate, AcceptedSurvives
<1> HIDE DEF j, c
<1>7. CASE Transactional
  BY <1>1, <1>2, <1>3, <1>6, <1>7, UnchangedForward DEF StageHeld, Kept, VersionOrder, c
<1>8. CASE ~Transactional
  <2> DEFINE k == StageOrder[j]
             v == holder.writes[k]
  <2>1. /\ k \in {"cand_ssid", "cand_pass", "cand_req", "cand_ver"} /\ v \in Values[k]
        /\ k = "cand_ver" => v = c.ver
        /\ \A i \in 1..4 : StageOrder[i] = k => i = j
    BY <1>1, <1>3, <1>4, <1>5 DEF Values, Config
  <2>2. k \in Keys /\ nvs' = [nvs EXCEPT ![k] = v]
    BY <1>1, <1>8, <2>1 DEF Keys, Values
  <2> HIDE DEF k, v
  <2>3. nvs' \in Nvs
    BY <1>3, <2>1, <2>2, WriteKey
  <2>4. /\ nvs'.active_ver = nvs.active_ver
        /\ nvs'.cand_ver = (IF k = "cand_ver" THEN v ELSE nvs.cand_ver)
    BY <1>3, <2>1, <2>2, WriteFields
  <2>5. VersionOrder'
    <3>1. nvs.active_ver # None => nvs.active_ver \in Nat
      BY <1>3 DEF Nvs
    <3> QED BY <1>3, <2>1, <2>4, <3>1 DEF VersionOrder
  <2>6. \A i \in 1..4 : i <= j => nvs'[StageOrder[i]] = holder.writes[StageOrder[i]]
    <3> SUFFICES ASSUME NEW i \in 1..4, i <= j
                 PROVE  nvs'[StageOrder[i]] = holder.writes[StageOrder[i]]
      OBVIOUS
    <3>1. StageOrder[i] \in Keys /\ DOMAIN nvs = Keys
      BY <1>3, <1>4, NvsValues DEF Keys, Values
    <3>2. CASE i = j
      BY <2>2, <3>1, <3>2 DEF k, v
    <3>3. CASE i # j
      <4>1. StageOrder[i] # k /\ i <= Done(StageOrder)
        BY <1>1, <1>8, <2>1, <3>3
      <4>2. nvs[StageOrder[i]] = holder.writes[StageOrder[i]]
        BY <4>1 DEF StageHeld
      <4> QED BY <2>2, <3>1, <4>1, <4>2
    <3> QED BY <3>2, <3>3
  <2>7. Forward
    BY <1>3, <2>4, UnchangedForward
  <2> QED BY <1>1, <1>2, <1>3, <1>6, <1>8, <2>3, <2>4, <2>5, <2>6, <2>7
          DEF StageHeld, Kept, c
<1> QED BY <1>7, <1>8

\* The candidate is whole until the identity of the new current slot is written:
\* this is where the order of the calls matters.
LEMMA PromoteWriteOK ==
  ASSUME DInv, Shape, PromoteHeld, Write
  PROVE  nvs' \in Nvs /\ Kept' /\ PromoteHeld' /\ Forward
<1> DEFINE j == Len(PromoteOrder) - Len(holder.order) + 1
           w == holder.writes
<1>1. /\ j \in 1..10 /\ Suffix(holder'.order, PromoteOrder)
      /\ Transactional => Done(PromoteOrder) = 0 /\ Done(PromoteOrder)' = 0 /\ UNCHANGED nvs
      /\ ~Transactional => /\ Done(PromoteOrder) = j - 1 /\ Done(PromoteOrder)' = j
                           /\ nvs' = [nvs EXCEPT ![PromoteOrder[j]] = w[PromoteOrder[j]]]
  BY NextCall, OrderKeys DEF PromoteHeld
<1>2. /\ holder'.kind = "promote" /\ holder'.writes = w /\ holder'.config = None
      /\ UNCHANGED accepted
  BY WriteHolder DEF PromoteHeld
<1>3. nvs \in Nvs /\ Kept
  BY DEF DInv
<1>4. /\ PromoteOrder[1] = "sta_ssid" /\ PromoteOrder[2] = "sta_password"
      /\ PromoteOrder[3] = "active_req" /\ PromoteOrder[4] = "active_ver"
      /\ PromoteOrder[5] = "cand_ssid" /\ PromoteOrder[6] = "cand_pass"
      /\ PromoteOrder[7] = "cand_req" /\ PromoteOrder[8] = "cand_ver"
      /\ PromoteOrder[9] = "recv_trig" /\ PromoteOrder[10] = "recv_retry"
  BY DEF PromoteOrder
<1>5. /\ w.sta_ssid \in Creds \cup {None} /\ w.sta_password \in Creds \cup {None}
      /\ w.active_req \in Requests /\ w.active_ver \in Versions
      /\ w.cand_ssid = None /\ w.cand_pass = None /\ w.cand_req = None /\ w.cand_ver = None
      /\ w.recv_trig = None /\ w.recv_retry = None
  <2>1. PICK n \in Nvs : CandidateError(n) = "ok" /\ w = PromoteWrites(n)
    BY DEF PromoteHeld
  <2> HIDE DEF w
  <2> QED BY <2>1 DEF PromoteWrites, CandidateError, Nvs
<1>6. accepted # None => /\ w.sta_ssid = accepted.cred /\ w.sta_password = accepted.cred
                         /\ w.active_req = accepted.req /\ w.active_ver = accepted.ver
  BY DEF PromoteHeld
<1>7. Done(PromoteOrder) <= 4 =>
        /\ nvs.cand_ssid = w.sta_ssid /\ nvs.cand_pass = w.sta_password
        /\ nvs.cand_req = w.active_req /\ nvs.cand_ver = w.active_ver
  BY DEF PromoteHeld
<1>8. \A i \in 1..5 : i <= Done(PromoteOrder) => nvs[PromoteOrder[i]] = w[PromoteOrder[i]]
  BY DEF PromoteHeld
<1>9. \E n \in Nvs : CandidateError(n) = "ok" /\ w = PromoteWrites(n)
  BY DEF PromoteHeld
<1> HIDE DEF j, w
<1>10. CASE Transactional
  BY <1>1, <1>2, <1>3, <1>6, <1>7, <1>8, <1>9, <1>10, UnchangedForward
     DEF PromoteHeld, Kept, VersionOrder, AcceptedIsCandidate, AcceptedSurvives, InCandidate
<1>11. CASE ~Transactional
  <2> DEFINE k == PromoteOrder[j]
             v == w[k]
  <2>1. k \in Keys /\ nvs' = [nvs EXCEPT ![k] = v] /\ v \in Values[k]
    BY <1>1, <1>4, <1>5, <1>11 DEF Keys, Values
  <2>2. /\ j <= 4 => k \in {"sta_ssid", "sta_password", "active_req", "active_ver"}
        /\ j > 4 => k \in {"cand_ssid", "cand_pass", "cand_req", "cand_ver", "recv_trig",
                           "recv_retry"}
        /\ k = "active_ver" => j = 4 /\ v = w.active_ver
        /\ k \in {"cand_ssid", "cand_pass", "cand_req", "cand_ver"} => v = None
        /\ \A i \in 1..10 : PromoteOrder[i] = k => i = j
    BY <1>1, <1>4, <1>5
  <2> HIDE DEF k
  <2>3. nvs' \in Nvs
    BY <1>3, <2>1, WriteKey
  <2>4. /\ nvs'.sta_ssid = (IF k = "sta_ssid" THEN v ELSE nvs.sta_ssid)
        /\ nvs'.sta_password = (IF k = "sta_password" THEN v ELSE nvs.sta_password)
        /\ nvs'.cand_ssid = (IF k = "cand_ssid" THEN v ELSE nvs.cand_ssid)
        /\ nvs'.cand_pass = (IF k = "cand_pass" THEN v ELSE nvs.cand_pass)
        /\ nvs'.cand_req = (IF k = "cand_req" THEN v ELSE nvs.cand_req)
        /\ nvs'.cand_ver = (IF k = "cand_ver" THEN v ELSE nvs.cand_ver)
        /\ nvs'.active_req = (IF k = "active_req" THEN v ELSE nvs.active_req)
        /\ nvs'.active_ver = (IF k = "active_ver" THEN v ELSE nvs.active_ver)
    BY <1>3, <2>1, WriteFields
  <2>5. VersionOrder'
    <3>1. CASE k = "active_ver"
      <4>1. nvs'.active_ver = w.active_ver /\ nvs'.cand_ver = w.active_ver
        BY <1>1, <1>7, <1>11, <2>2, <2>4, <3>1
      <4>2. w.active_ver \in Nat
        BY <1>5
      <4>3. w.active_ver <= w.active_ver
        BY <4>2
      <4> QED BY <4>1, <4>3 DEF VersionOrder
    <3>2. CASE k # "active_ver"
      BY <1>3, <2>2, <2>4, <3>2 DEF VersionOrder, Kept
    <3> QED BY <3>1, <3>2
  <2>6. AcceptedIsCandidate'
    <3>1. CASE k \in {"cand_ssid", "cand_pass", "cand_req", "cand_ver"}
      <4>1. None \in {nvs'.cand_ssid, nvs'.cand_pass, nvs'.cand_req, nvs'.cand_ver}
        BY <2>2, <2>4, <3>1
      <4> QED BY <4>1 DEF AcceptedIsCandidate, CandidateError
    <3>2. CASE k \notin {"cand_ssid", "cand_pass", "cand_req", "cand_ver"}
      <4>1. /\ nvs'.cand_ssid = nvs.cand_ssid /\ nvs'.cand_pass = nvs.cand_pass
            /\ nvs'.cand_req = nvs.cand_req /\ nvs'.cand_ver = nvs.cand_ver
        BY <2>4, <3>2
      <4> QED BY <1>2, <1>3, <4>1 DEF AcceptedIsCandidate, CandidateError, InCandidate, Kept
    <3> QED BY <3>1, <3>2
  <2>7. j <= 4 => /\ nvs'.cand_ssid = w.sta_ssid /\ nvs'.cand_pass = w.sta_password
                  /\ nvs'.cand_req = w.active_req /\ nvs'.cand_ver = w.active_ver
    BY <1>1, <1>7, <1>11, <2>2, <2>4
  <2>8. \A i \in 1..5 : i <= j => nvs'[PromoteOrder[i]] = w[PromoteOrder[i]]
    <3> SUFFICES ASSUME NEW i \in 1..5, i <= j
                 PROVE  nvs'[PromoteOrder[i]] = w[PromoteOrder[i]]
      OBVIOUS
    <3>1. PromoteOrder[i] \in Keys /\ DOMAIN nvs = Keys
      BY <1>3, <1>4, NvsValues DEF Keys, Values
    <3>2. CASE i = j
      BY <2>1, <3>1, <3>2 DEF k
    <3>3. CASE i # j
      <4>1. PromoteOrder[i] # k /\ i <= Done(PromoteOrder)
        BY <1>1, <1>11, <2>2, <3>3
      <4>2. nvs[PromoteOrder[i]] = w[PromoteOrder[i]]
        BY <1>8, <4>1
      <4> QED BY <2>1, <3>1, <4>1, <4>2
    <3> QED BY <3>2, <3>3
  <2>9. AcceptedSurvives'
    <3> SUFFICES ASSUME accepted # None
                 PROVE  InCandidate(accepted)' \/ InCurrent(accepted)'
      BY <1>2 DEF AcceptedSurvives, InCandidate, InCurrent
    <3>1. CASE j <= 4
      BY <1>2, <1>6, <2>7, <3>1 DEF InCandidate
    <3>2. CASE j > 4
      <4>1. /\ nvs'[PromoteOrder[1]] = w[PromoteOrder[1]]
            /\ nvs'[PromoteOrder[2]] = w[PromoteOrder[2]]
            /\ nvs'[PromoteOrder[3]] = w[PromoteOrder[3]]
            /\ nvs'[PromoteOrder[4]] = w[PromoteOrder[4]]
        BY <1>1, <2>8, <3>2
      <4> QED BY <1>2, <1>4, <1>6, <4>1 DEF InCurrent
    <3> QED BY <1>1, <3>1, <3>2
  <2>10. PromoteHeld'
    BY <1>1, <1>2, <1>6, <1>9, <1>11, <2>7, <2>8 DEF PromoteHeld
  <2>11. Forward
    <3>1. CASE k = "active_ver"
      <4>1. nvs'.active_ver = nvs.cand_ver /\ nvs.cand_ver # None
        BY <1>1, <1>5, <1>7, <1>11, <2>2, <2>4, <3>1
      <4>2. nvs.active_ver # None => nvs.active_ver <= nvs.cand_ver
        BY <1>3, <4>1 DEF Kept, VersionOrder
      <4>3. /\ nvs.active_ver # None => nvs.active_ver \in Nat
            /\ nvs.cand_ver \in Nat
        BY <1>3, <4>1 DEF Nvs
      <4> QED BY <4>1, <4>2, <4>3 DEF Forward
    <3>2. CASE k # "active_ver"
      BY <1>3, <2>4, <3>2, UnchangedForward
    <3> QED BY <3>1, <3>2
  <2> QED BY <2>3, <2>5, <2>6, <2>9, <2>10, <2>11 DEF Kept
<1> QED BY <1>10, <1>11

\* While nothing accepted waits, erasing a version keeps their order.
LEMMA ErasedKept ==
  ASSUME DInv, accepted' = None,
         nvs'.cand_ver \in {None, nvs.cand_ver}, nvs'.active_ver \in {None, nvs.active_ver}
  PROVE  Kept' /\ Forward
BY UnchangedForward DEF DInv, Kept, VersionOrder, AcceptedIsCandidate, AcceptedSurvives

LEMMA SaveWriteOK ==
  ASSUME DInv, Shape, SaveHeld, Write
  PROVE  nvs' \in Nvs /\ Kept' /\ SaveHeld' /\ Forward
<1> DEFINE j == Len(SaveOrder) - Len(holder.order) + 1
           k == SaveOrder[j]
           v == holder.writes[k]
<1>1. /\ j \in 1..10 /\ Suffix(holder'.order, SaveOrder)
      /\ UNCHANGED nvs \/ nvs' = [nvs EXCEPT ![k] = v]
  BY NextCall, OrderKeys DEF SaveHeld
<1>2. /\ holder'.kind = "save" /\ holder'.writes = holder.writes /\ holder'.config = None
      /\ accepted = None /\ accepted' = None /\ nvs \in Nvs
  BY WriteHolder DEF SaveHeld, DInv
<1>3. k \in Keys
  <2>1. \A n \in 1..10 : SaveOrder[n] \in Keys
    BY DEF SaveOrder, Keys, Values
  <2> HIDE DEF j
  <2> QED BY <1>1, <2>1
<1>4. v \in Values[k] /\ (k \in {"cand_ver", "active_ver"} => v = None)
  <2>1. PICK c \in Creds : holder.writes = SaveWrites(c)
    BY DEF SaveHeld
  <2> HIDE DEF k
  <2> QED BY <1>3, <2>1 DEF SaveWrites, Keys, Values
<1> HIDE DEF k, v, j
<1>5. nvs' \in Nvs
  BY <1>1, <1>2, <1>3, <1>4, WriteKey
<1>6. nvs'.cand_ver \in {None, nvs.cand_ver} /\ nvs'.active_ver \in {None, nvs.active_ver}
  BY <1>1, <1>2, <1>3, <1>4, WriteFields
<1> QED BY <1>1, <1>2, <1>5, <1>6, ErasedKept DEF SaveHeld

LEMMA ClearWriteOK ==
  ASSUME DInv, Shape, ClearHeld, Write
  PROVE  nvs' \in Nvs /\ Kept' /\ ClearHeld' /\ Forward
<1> DEFINE j == Len(ClearOrder) - Len(holder.order) + 1
           k == ClearOrder[j]
           v == holder.writes[k]
<1>1. /\ j \in 1..4 /\ Suffix(holder'.order, ClearOrder)
      /\ UNCHANGED nvs \/ nvs' = [nvs EXCEPT ![k] = v]
  BY NextCall, OrderKeys DEF ClearHeld
<1>2. /\ holder'.kind = "clear" /\ holder'.writes = holder.writes /\ holder'.config = None
      /\ accepted = None /\ accepted' = None /\ nvs \in Nvs
  BY WriteHolder DEF ClearHeld, DInv
<1>3. k \in {"sta_ssid", "sta_password", "active_req", "active_ver"}
  BY <1>1 DEF ClearOrder
<1>4. k \in Keys /\ v \in Values[k] /\ v = None
  <2> HIDE DEF k
  <2> QED BY <1>3 DEF ClearHeld, ClearWrites, Keys, Values
<1> HIDE DEF k, v, j
<1>5. nvs' \in Nvs
  BY <1>1, <1>2, <1>4, WriteKey
<1>6. nvs'.cand_ver \in {None, nvs.cand_ver} /\ nvs'.active_ver \in {None, nvs.active_ver}
  BY <1>1, <1>2, <1>4, WriteFields
<1> QED BY <1>1, <1>2, <1>5, <1>6, ErasedKept DEF ClearHeld

LEMMA WriteOK ==
  ASSUME DInv, Write
  PROVE  DInv' /\ Forward
<1>1. holder # None /\ Shape /\ Held
  BY DEF Write, DInv
<1>2. Shape' /\ UNCHANGED <<retryRead, accepted>>
  BY <1>1, WriteHolder
<1>3. nvs' \in Nvs /\ Kept' /\ Held' /\ Forward
  BY <1>1, StageWriteOK, PromoteWriteOK, SaveWriteOK, ClearWriteOK DEF Held
<1> QED BY <1>2, <1>3 DEF DInv

-----------------------------------------------------------------------------
(* The commit, and every other end of an operation. *)

LEMMA OverFields ==
  ASSUME NEW n \in Nvs, NEW w
  PROVE  LET o == Over(n, w) IN
         /\ o.sta_ssid = (IF "sta_ssid" \in DOMAIN w THEN w.sta_ssid ELSE n.sta_ssid)
         /\ o.sta_password = (IF "sta_password" \in DOMAIN w THEN w.sta_password ELSE n.sta_password)
         /\ o.cand_ssid = (IF "cand_ssid" \in DOMAIN w THEN w.cand_ssid ELSE n.cand_ssid)
         /\ o.cand_pass = (IF "cand_pass" \in DOMAIN w THEN w.cand_pass ELSE n.cand_pass)
         /\ o.cand_req = (IF "cand_req" \in DOMAIN w THEN w.cand_req ELSE n.cand_req)
         /\ o.cand_ver = (IF "cand_ver" \in DOMAIN w THEN w.cand_ver ELSE n.cand_ver)
         /\ o.active_req = (IF "active_req" \in DOMAIN w THEN w.active_req ELSE n.active_req)
         /\ o.active_ver = (IF "active_ver" \in DOMAIN w THEN w.active_ver ELSE n.active_ver)
BY DEF Over, Nvs

\* What every operation holds is typed.
LEMMA HeldTyped == DInv /\ holder # None => WritesTyped(holder.writes)
<1> SUFFICES ASSUME DInv, holder # None PROVE WritesTyped(holder.writes)
  OBVIOUS
<1>1. CASE StageHeld
  BY <1>1 DEF StageHeld, StageWrites, WritesTyped, Keys, Values, Config
<1>2. CASE PromoteHeld
  BY <1>2 DEF PromoteHeld, PromoteWrites, WritesTyped, Keys, Values, Nvs
<1>3. CASE SaveHeld
  BY <1>3 DEF SaveHeld, SaveWrites, WritesTyped, Keys, Values
<1>4. CASE ClearHeld
  BY <1>4 DEF ClearHeld, ClearWrites, WritesTyped, Keys, Values
<1> QED BY <1>1, <1>2, <1>3, <1>4 DEF DInv, Held

LEMMA CommitOK ==
  ASSUME DInv, Commit
  PROVE  DInv' /\ Forward
<1>1. /\ holder # None /\ holder.order = <<>> /\ holder' = None /\ UNCHANGED retryRead
      /\ nvs' = (IF Transactional THEN Over(nvs, holder.writes) ELSE nvs)
      /\ accepted' = (IF holder.kind = "stage" THEN holder.config ELSE accepted)
      /\ nvs \in Nvs /\ Held
  BY DEF Commit, DInv
<1>2. nvs' \in Nvs
  BY <1>1, HeldTyped, OverTyped
<1>3. CASE StageHeld
  <2> DEFINE c == holder.config
  <2>1. /\ accepted' = c /\ c \in Config /\ c.ver \in Nat /\ c # None
        /\ holder.writes = StageWrites(c)
        /\ nvs.active_ver # None => nvs.active_ver < c.ver
    BY <1>1, <1>3 DEF StageHeld, Config
  <2>2. /\ nvs'.cand_ssid = c.cred /\ nvs'.cand_pass = c.cred
        /\ nvs'.cand_req = c.req /\ nvs'.cand_ver = c.ver
        /\ nvs'.active_ver = nvs.active_ver
    <3>1. CASE Transactional
      BY <1>1, <2>1, <3>1, OverFields DEF StageWrites
    <3>2. CASE ~Transactional
      <4>1. Done(StageOrder) = 4
        BY <1>1, <3>2, OrderKeys, EmptySeq DEF Done
      <4>2. /\ nvs[StageOrder[1]] = holder.writes[StageOrder[1]]
            /\ nvs[StageOrder[2]] = holder.writes[StageOrder[2]]
            /\ nvs[StageOrder[3]] = holder.writes[StageOrder[3]]
            /\ nvs[StageOrder[4]] = holder.writes[StageOrder[4]]
        BY <1>3, <4>1 DEF StageHeld
      <4>3. /\ nvs.cand_ssid = c.cred /\ nvs.cand_pass = c.cred
            /\ nvs.cand_req = c.req /\ nvs.cand_ver = c.ver
        BY <2>1, <4>2 DEF StageOrder, StageWrites
      <4> QED BY <1>1, <3>2, <4>3
    <3> QED BY <3>1, <3>2
  <2>3. nvs'.active_ver # None => nvs'.active_ver \in Nat
    BY <1>2 DEF Nvs
  <2> HIDE DEF c
  <2>4. VersionOrder'
    BY <2>1, <2>2, <2>3 DEF VersionOrder
  <2>5. AcceptedIsCandidate' /\ AcceptedSurvives'
    BY <2>1, <2>2 DEF AcceptedIsCandidate, AcceptedSurvives, InCandidate
  <2>6. Forward
    BY <1>1, <2>2, UnchangedForward
  <2> QED BY <1>1, <1>2, <2>1, <2>4, <2>5, <2>6 DEF DInv, Kept
<1>4. CASE PromoteHeld
  <2>1. /\ accepted' = accepted
        /\ accepted # None =>
             /\ holder.writes.sta_ssid = accepted.cred /\ holder.writes.sta_password = accepted.cred
             /\ holder.writes.active_req = accepted.req /\ holder.writes.active_ver = accepted.ver
    BY <1>1, <1>4 DEF PromoteHeld
  <2>2. CASE Transactional
    <3>1. PICK n \in Nvs : holder.writes = PromoteWrites(n)
      BY <1>4 DEF PromoteHeld
    <3>2. /\ nvs'.cand_ssid = None /\ nvs'.cand_ver = None
          /\ nvs'.sta_ssid = holder.writes.sta_ssid
          /\ nvs'.sta_password = holder.writes.sta_password
          /\ nvs'.active_req = holder.writes.active_req
          /\ nvs'.active_ver = holder.writes.active_ver
      BY <1>1, <2>2, <3>1, OverFields DEF PromoteWrites
    <3>3. Kept'
      BY <2>1, <3>2 DEF Kept, VersionOrder, AcceptedIsCandidate, AcceptedSurvives,
                        CandidateError
    <3>4. holder.writes.active_ver = nvs.cand_ver
      BY <1>4, <2>2 DEF PromoteHeld, Done
    <3>5. Forward
      <4>1. /\ nvs.active_ver # None => nvs.active_ver \in Nat
            /\ nvs.cand_ver # None => nvs.cand_ver \in Nat
        BY <1>1 DEF Nvs
      <4>2. nvs.cand_ver # None /\ nvs.active_ver # None => nvs.active_ver <= nvs.cand_ver
        BY DEF DInv, Kept, VersionOrder
      <4> QED BY <3>2, <3>4, <4>1, <4>2 DEF Forward
    <3> QED BY <1>1, <1>2, <2>1, <3>3, <3>5 DEF DInv
  <2>3. CASE ~Transactional
    BY <1>1, <2>1, <2>3, UnchangedForward
       DEF DInv, Kept, VersionOrder, AcceptedIsCandidate, AcceptedSurvives, InCandidate
  <2> QED BY <2>2, <2>3
<1>5. CASE SaveHeld \/ ClearHeld
  <2>1. accepted' = None
    BY <1>1, <1>5 DEF SaveHeld, ClearHeld
  <2>2. nvs'.cand_ver \in {None, nvs.cand_ver} /\ nvs'.active_ver \in {None, nvs.active_ver}
    <3>1. CASE ~Transactional
      BY <1>1, <3>1
    <3>2. CASE Transactional /\ SaveHeld
      BY <1>1, <3>2, OverFields DEF SaveHeld, SaveWrites
    <3>3. CASE Transactional /\ ClearHeld
      BY <1>1, <3>3, OverFields DEF ClearHeld, ClearWrites
    <3> QED BY <1>5, <3>1, <3>2, <3>3
  <2>3. Kept' /\ Forward
    BY <2>1, <2>2, ErasedKept
  <2> QED BY <1>1, <1>2, <2>1, <2>3 DEF DInv
<1> QED BY <1>1, <1>3, <1>4, <1>5 DEF Held

\* An operation cut short leaves what it did, and what is kept is kept.
LEMMA CutShortOK ==
  ASSUME DInv, CallFails \/ Restart
  PROVE  DInv'
BY DEF CallFails, Restart, DInv, Kept, VersionOrder, AcceptedIsCandidate,
       AcceptedSurvives, InCandidate

-----------------------------------------------------------------------------
(* The recovery mark and counter, and the theorems. *)

LEMMA RecoveryOK ==
  ASSUME DInv, (\E value \in {1, None} : SetRecovery(value)) \/ ReadRetry \/ WriteRetry
  PROVE  DInv' /\ Forward
<1>1. UNCHANGED <<holder, accepted>> /\ nvs \in Nvs
  BY DEF SetRecovery, ReadRetry, WriteRetry, DInv
<1>2. /\ nvs' \in Nvs /\ retryRead' \in Counts \cup {None}
      /\ \A k \in Keys \ {"recv_trig", "recv_retry"} : nvs'[k] = nvs[k]
  <2>1. ASSUME NEW value \in {1, None}, SetRecovery(value)
        PROVE  /\ nvs' = [nvs EXCEPT !["recv_trig"] = value]
               /\ retryRead' \in Counts \cup {None}
    BY <2>1 DEF SetRecovery, DInv
  <2>2. ASSUME ReadRetry PROVE UNCHANGED nvs /\ retryRead' \in Counts \cup {None}
    BY <1>1, <2>2 DEF ReadRetry, Nvs, Counts
  <2>3. ASSUME WriteRetry
        PROVE  /\ \E v \in Counts : nvs' = [nvs EXCEPT !["recv_retry"] = v]
               /\ retryRead' \in Counts \cup {None}
    BY <2>3 DEF WriteRetry, DInv, Counts
  <2>4. "recv_trig" \in Keys /\ "recv_retry" \in Keys /\ DOMAIN nvs = Keys
    BY <1>1, NvsValues DEF Keys, Values
  <2>5. \A value \in {1, None} : [nvs EXCEPT !["recv_trig"] = value] \in Nvs
    BY <1>1 DEF Nvs
  <2>6. \A v \in Counts : [nvs EXCEPT !["recv_retry"] = v] \in Nvs
    BY <1>1 DEF Nvs
  <2> QED BY <1>1, <2>1, <2>2, <2>3, <2>4, <2>5, <2>6
<1>3. /\ nvs'.sta_ssid = nvs.sta_ssid /\ nvs'.sta_password = nvs.sta_password
      /\ nvs'.cand_ssid = nvs.cand_ssid /\ nvs'.cand_pass = nvs.cand_pass
      /\ nvs'.cand_req = nvs.cand_req /\ nvs'.cand_ver = nvs.cand_ver
      /\ nvs'.active_req = nvs.active_req /\ nvs'.active_ver = nvs.active_ver
  BY <1>2 DEF Keys, Values
<1>4. Kept' /\ Forward
  BY <1>1, <1>3, UnchangedForward
     DEF DInv, Kept, VersionOrder, AcceptedIsCandidate, AcceptedSurvives, CandidateError,
         InCandidate
<1>5. /\ \A i \in 1..4 : nvs'[StageOrder[i]] = nvs[StageOrder[i]]
      /\ \A i \in 1..5 : nvs'[PromoteOrder[i]] = nvs[PromoteOrder[i]]
  BY <1>3 DEF StageOrder, PromoteOrder
<1>6. ASSUME holder # None PROVE Shape' /\ Held'
  <2>1. Shape /\ Held
    BY <1>6 DEF DInv
  <2>2. \A ord : Done(ord)' = Done(ord)
    BY <1>1 DEF Done
  <2>3. ASSUME StageHeld PROVE StageHeld'
    BY <1>1, <1>3, <1>5, <2>2, <2>3 DEF StageHeld
  <2>4. ASSUME PromoteHeld PROVE PromoteHeld'
    BY <1>1, <1>3, <1>5, <2>2, <2>4 DEF PromoteHeld
  <2>5. ASSUME SaveHeld \/ ClearHeld PROVE SaveHeld' \/ ClearHeld'
    BY <1>1, <2>5 DEF SaveHeld, ClearHeld
  <2> QED BY <1>1, <2>1, <2>3, <2>4, <2>5 DEF Shape, Held
<1> QED BY <1>1, <1>2, <1>4, <1>6 DEF DInv

LEMMA NextDurable ==
  ASSUME DInv, [Next]_vars
  PROVE  DInv' /\ Forward
<1>1. ASSUME UNCHANGED nvs PROVE Forward
  BY <1>1, UnchangedForward DEF DInv
<1>2. ASSUME \/ \E c \in Config : StageBegin(c)
             \/ \E req \in Requests, ver \in Versions : PromoteBegin(req, ver)
             \/ (\E c \in Creds : SaveBegin(c)) \/ ClearBegin
      PROVE  DInv' /\ UNCHANGED nvs
  <2>1. UNCHANGED nvs
    BY <1>2 DEF StageBegin, PromoteBegin, SaveBegin, ClearBegin
  <2>2. DInv'
    BY <1>2, StageBeginOK, PromoteBeginOK, ReplaceBeginOK
  <2> QED BY <2>1, <2>2
<1>3. ASSUME Write \/ Commit PROVE DInv' /\ Forward
  BY <1>3, WriteOK, CommitOK
<1>4. ASSUME CallFails \/ Restart PROVE DInv' /\ UNCHANGED nvs
  BY <1>4, CutShortOK DEF CallFails, Restart
<1>5. ASSUME (\E value \in {1, None} : SetRecovery(value)) \/ ReadRetry \/ WriteRetry
      PROVE  DInv' /\ Forward
  BY <1>5, RecoveryOK
<1>6. ASSUME UNCHANGED vars PROVE DInv' /\ UNCHANGED nvs
  BY <1>6 DEF vars, DInv, Kept, VersionOrder, AcceptedIsCandidate, AcceptedSurvives,
     InCandidate, Shape, Held, StageHeld, PromoteHeld, SaveHeld, ClearHeld, Done
<1> QED BY <1>1, <1>2, <1>3, <1>4, <1>5, <1>6 DEF Next

\* The inductive invariant: what an operation has left to do, against what NVS
\* holds, for commits of either kind.
THEOREM Durable == Spec => []DInv
<1>1. DInv /\ [Next]_vars => DInv'
  BY NextDurable
<1> QED BY InitDurable, <1>1, PTL DEF Spec

\* A configuration the storage reported stored can be read back, as candidate or
\* as current, through interrupted promotions, failing calls and restarts, until
\* another stage, a save or a clear sets out to replace it.
THEOREM AcceptedNeverLost == Spec => []AcceptedSurvives
<1>1. DInv => AcceptedSurvives
  BY DEF DInv, Kept
<1> QED BY <1>1, Durable, PTL

\* The version in use never goes back, whatever was interrupted before.
THEOREM VersionsAdvance == Spec => NoVersionRollback
<1>1. DInv /\ [Next]_vars => Forward
  BY NextDurable
<1> QED BY <1>1, Durable, PTL DEF Spec, NoVersionRollback, Forward

\* Every key keeps its type, and no operation has more calls than the longest.
THEOREM StorageTypes == Spec => []TypeOK
<1>1. DInv => TypeOK
  <2> SUFFICES ASSUME DInv PROVE TypeOK
    OBVIOUS
  <2>1. ASSUME holder # None
        PROVE  /\ holder.kind \in Kinds /\ holder.config \in Config \cup {None}
               /\ Len(holder.order) <= Len(PromoteOrder)
    BY <2>1, OrderKeys DEF DInv, Held, StageHeld, PromoteHeld, SaveHeld, ClearHeld, Kinds, Suffix
  <2> QED BY <2>1 DEF DInv, TypeOK
<1> QED BY <1>1, Durable, PTL


=============================================================================
