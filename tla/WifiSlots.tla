------------------------------- MODULE WifiSlots -------------------------------
(***************************************************************************)
(* What app_storage promises of the device's upstream Wi-Fi configuration, *)
(* as its header states it: two slots, each read and written as a whole.   *)
(*                                                                         *)
(*   current    the credentials the device connects with                   *)
(*   candidate  a configuration the backend staged, not yet verified       *)
(*   active     request and version of the promoted configuration; none    *)
(*              for credentials typed into the portal's form               *)
(***************************************************************************)
EXTENDS Integers

CONSTANTS
  Creds,     \* pairs of SSID and password
  Requests,  \* request ids of the backend
  Versions,  \* configuration versions, uint32 without 0
  None       \* an empty slot, an absent key

VARIABLES current, candidate, active
slots == <<current, candidate, active>>

Config == [cred : Creds, req : Requests, ver : Versions]
Id     == [req : Requests, ver : Versions]
IdOf(c) == [req |-> c.req, ver |-> c.ver]

Init == /\ current \in Creds \cup {None}
        /\ candidate = None /\ active = None

\* A candidate replaces nothing as new as itself, and never touches current.
Newest(c) == /\ candidate # None => candidate.ver < c.ver
             /\ active # None => active.ver < c.ver

Stage(c) == /\ Newest(c)
            /\ candidate' = c /\ UNCHANGED <<current, active>>

Promote == /\ candidate # None
           /\ current' = candidate.cred
           /\ active' = IdOf(candidate)
           /\ candidate' = None

Save(c) == current' = c /\ candidate' = None /\ active' = None

Clear == current' = None /\ active' = None /\ UNCHANGED candidate

Next == \/ \E c \in Config : Stage(c)
        \/ Promote
        \/ \E c \in Creds : Save(c)
        \/ Clear

Spec == Init /\ [][Next]_slots

-----------------------------------------------------------------------------
SlotTypes == /\ current \in Creds \cup {None}
             /\ candidate \in Config \cup {None}
             /\ active \in Id \cup {None}

\* What is pending is newer than what is active: a promotion never goes back.
PendingIsNewer == candidate # None /\ active # None => candidate.ver > active.ver

\* Only a current configuration has an identity.
ActiveHasCurrent == active # None => current # None

=============================================================================
