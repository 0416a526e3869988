----------------------------- MODULE Credentials -----------------------------
(* User and group ids of a process (ProcessIdentity, os/src/task/process.rs) *)
(* and the calls of os/src/syscall/process.rs that set them.  The calls on   *)
(* user and on group ids have the same text over other fields: each is an    *)
(* action over the kind k of id, "u" or "g"; cred[p][k] holds the real,      *)
(* effective, saved and file-system id.                                      *)
EXTENDS Naturals

CONSTANTS Procs,   \* bound: processes
          Ids,     \* bound: ids, 0 is root
          Keep     \* u32::MAX, "leave this id alone"

ASSUME CredAssumption == 0 \in Ids /\ Keep \notin Ids

VARIABLE cred

Kinds == {"u", "g"}
Cred(i) == [real |-> i, effective |-> i, saved |-> i, fs |-> i]
IdsOfKind == [real : Ids, effective : Ids, saved : Ids, fs : Ids]
CredType == [Procs -> [Kinds -> IdsOfKind]]

Held(p, k) == {cred[p][k].real, cred[p][k].effective, cred[p][k].saved}
(* Each call asks its own kind of id whether it is privileged: setgid and    *)
(* its like look at the effective group id, not at the effective user id.    *)
Privileged(p, k) == cred[p][k].effective = 0
Chosen(i, old) == IF i = Keep THEN old ELSE i

(* sys_setuid, sys_setgid: the saved id stays.                               *)
SetId(p, k, i) ==
  LET c == cred[p][k] IN
  /\ Privileged(p, k) \/ i \in {c.real, c.effective}
  /\ cred' = [cred EXCEPT ![p][k] =
       [c EXCEPT !.real = IF Privileged(p, k) THEN i ELSE c.real, !.effective = i, !.fs = i]]

(* sys_setreuid, sys_setregid.                                               *)
SetReId(p, k, r, e) ==
  LET c == cred[p][k]
      effective == Chosen(e, c.effective)
  IN
  /\ \/ Privileged(p, k)
     \/ r \in {Keep, c.real, c.effective} /\ e \in {Keep} \cup Held(p, k)
  /\ cred' = [cred EXCEPT ![p][k] =
       [real |-> Chosen(r, c.real), effective |-> effective,
        fs |-> IF e = Keep THEN c.fs ELSE e,
        saved |-> IF r # Keep \/ effective # c.real THEN effective ELSE c.saved]]

(* sys_setresuid, sys_setresgid.                                             *)
MaySetRes_NoSavedCheck(p, k, ids) == Privileged(p, k) \/ {ids[1], ids[2]} \subseteq {Keep} \cup Held(p, k)
MaySetRes(p, k, ids) == Privileged(p, k) \/ {ids[n] : n \in 1..3} \subseteq {Keep} \cup Held(p, k)
SetResId(p, k, ids) ==
  LET c == cred[p][k] IN
  /\ MaySetRes(p, k, ids)
  /\ cred' = [cred EXCEPT ![p][k] =
       [real |-> Chosen(ids[1], c.real), effective |-> Chosen(ids[2], c.effective),
        saved |-> Chosen(ids[3], c.saved), fs |-> Chosen(ids[2], c.fs)]]

(* sys_setfsuid, sys_setfsgid: privileged by the effective user id for both. *)
SetFsId(p, k, i) ==
  /\ Privileged(p, "u") \/ i \in Held(p, k) \cup {cred[p][k].fs}
  /\ cred' = [cred EXCEPT ![p][k].fs = i]

CredStep(p) == \E k \in Kinds, i, j, l \in Ids \cup {Keep} :
  \/ j = Keep /\ l = Keep /\ i # Keep /\ (SetId(p, k, i) \/ SetFsId(p, k, i))
  \/ l = Keep /\ SetReId(p, k, i, j)
  \/ SetResId(p, k, <<i, j, l>>)

(* The calls by themselves, from any ids.                                    *)
CredInit == cred \in CredType
CredSpec == CredInit /\ [][\E p \in Procs : CredStep(p)]_cred

(* A process that has given root up for good, in all three ids it may switch *)
(* between, holds from then on only ids it held at that moment, by whatever  *)
(* sequence of the eight calls; a process keeps the ids of each kind apart.  *)
DroppedForGood ==
  [][\A p \in Procs, k \in Kinds : 0 \notin Held(p, k) => Held(p, k)' \subseteq Held(p, k)]_cred
=============================================================================
