------------------------------ MODULE Transfer ------------------------------
(***************************************************************************)
(* transfer/bin/transfer.py, run once for each version of one file (one    *)
(* FILENO), which sends it to the upload directories of the hosts and      *)
(* flags it there; composed with the supervisor of one of the hosts.       *)
(*                                                                         *)
(* Runs share the file's temporary directory and the lock. How many may    *)
(* run at a time is up to whoever schedules them. A run is known by the    *)
(* version it makes. The supervisor numbers versions by the time of their  *)
(* flag; here they are numbered as their runs start, which is that order   *)
(* when one run is under way at a time, and need not be when they overlap. *)
(***************************************************************************)
EXTENDS Supervisor

CONSTANTS
  Host,       \* servers of the run's groups
  HERE,       \* the one whose supervisor is modelled
  Local,      \* those written 127.0.0.1
  MaxRunning  \* runs at a time

ASSUME TransferAssumption ==
  HERE \in Host /\ Local \subseteq Host \ {HERE} /\ MaxRunning \in Nat \ {0}

VARIABLES
  at,     \* where each run is
  todo,   \* hosts it has still to serve in its loop
  holder, \* the run that has the lock
  tmp,    \* whether local_tmp_dir is there
  hdict,  \* the directory of each version in it
  flg,    \* whether done.flg is in it
  copy,   \* directory of each version at the hosts other than HERE
  flag    \* versions with done.flg there

local_dir == <<tmp, hdict, flg>>
hosts == <<copy, flag, uploads>>
runs == <<at, todo, holder>>
server_side == <<files, process, sh, dataids, tries, operator>>
transferVars == <<runs, local_dir, hosts, server_side>>

TransferTypeOK ==
  /\ at \in [Version -> {"new", "wipe", "check", "lock", "make", "send", "sending", "sending_part",
                         "touch", "flag", "clear", "ended"}]
  /\ todo \in [Version -> SUBSET Host] /\ holder \in Version \cup {NONE}
  /\ tmp \in BOOLEAN /\ hdict \in [Version -> Dir] /\ flg \in BOOLEAN
  /\ copy \in [Host \ {HERE} -> [Version -> Dir]]
  /\ flag \in [Host \ {HERE} -> SUBSET Version]

DeployTypeOK == SupervisorTypeOK /\ TransferTypeOK

TransferInit ==
  /\ at = [v \in Version |-> "new"] /\ todo = [v \in Version |-> {}] /\ holder = NONE
  /\ tmp = FALSE /\ hdict = [v \in Version |-> "none"] /\ flg = FALSE
  /\ copy = [h \in Host \ {HERE} |-> [v \in Version |-> "none"]]
  /\ flag = [h \in Host \ {HERE} |-> {}]

Remote == Host \ Local
Running == {v \in Version : at[v] \notin {"new", "ended"}}

CopyAt(h, v) == IF h = HERE THEN upload[v] ELSE copy[h][v]
FlaggedAt(h) == IF h = HERE THEN updone ELSE flag[h]

Put(h, v, dir) ==
  IF h = HERE
  THEN upload' = [upload EXCEPT ![v] = dir] /\ UNCHANGED <<updone, copy, flag>>
  ELSE copy' = [copy EXCEPT ![h][v] = dir] /\ UNCHANGED <<uploads, flag>>

PutFlag(h, v) ==
  IF h = HERE
  THEN updone' = updone \cup {v} /\ UNCHANGED <<upload, copy, flag>>
  ELSE flag' = [flag EXCEPT ![h] = @ \cup {v}] /\ UNCHANGED <<uploads, copy>>

Go(v, from, to) == at[v] = from /\ at' = [at EXCEPT ![v] = to]
Unlock(v) == holder' = IF holder = v THEN NONE ELSE holder
Exit(v, from) == Go(v, from, "ended") /\ Unlock(v)

-----------------------------------------------------------------------------

\* rmtree of what an earlier run left: some files, then all, then mkdir. The
\* lock is not asked for yet.
Begin(v) ==
  /\ Go(v, "new", IF tmp THEN "wipe" ELSE "check")
  /\ \A u \in 1 .. v - 1 : at[u] # "new"
  /\ Cardinality(Running) < MaxRunning
  /\ hdict' = [u \in Version |-> IF hdict[u] = "whole" THEN "part" ELSE hdict[u]]
  /\ tmp' = TRUE
  /\ UNCHANGED <<todo, holder, flg, hosts, server_side>>

Wiped(v) ==
  /\ Go(v, "wipe", "check")
  /\ tmp' = TRUE /\ hdict' = [u \in Version |-> "none"] /\ flg' = FALSE
  /\ UNCHANGED <<todo, holder, hosts, server_side>>

\* The file is there, or it is not after CHECK_TIMES.
Check(v) ==
  /\ Go(v, "check", "lock") \/ Go(v, "check", "ended")
  /\ UNCHANGED <<todo, holder, local_dir, hosts, server_side>>

Lock(v) ==
  /\ Go(v, "lock", "make")
  /\ holder = NONE /\ holder' = v
  /\ UNCHANGED <<todo, local_dir, hosts, server_side>>

\* Wrong: what the plugin returns is not looked at.
Make_IgnoresExit(v) ==
  /\ Go(v, "make", "send") /\ tmp
  /\ \E dir \in {"part", "whole"} : hdict' = [hdict EXCEPT ![v] = dir]
  /\ todo' = [todo EXCEPT ![v] = Remote]
  /\ UNCHANGED <<holder, tmp, flg, hosts, server_side>>

\* copyToLocal and the plugin.
Make(v) ==
  /\ Go(v, "make", "send") /\ tmp
  /\ hdict' = [hdict EXCEPT ![v] = "whole"]
  /\ todo' = [todo EXCEPT ![v] = Remote]
  /\ UNCHANGED <<holder, tmp, flg, hosts, server_side>>

\* rsync of the directory: it lists the files, which a wipe may have thinned
\* out by then, and sends them one after the other. Fail, below, is what
\* happens when one it has listed goes away.
Send(v, h) ==
  /\ h \in todo[v] /\ hdict[v] # "none"
  /\ Go(v, "send", IF hdict[v] = "whole" THEN "sending" ELSE "sending_part")
  /\ Put(h, v, "part")
  /\ UNCHANGED <<todo, holder, local_dir, server_side>>

Sent(v, h) ==
  /\ h \in todo[v] /\ CopyAt(h, v) = "part"
  /\ \/ Go(v, "sending", "send") /\ Put(h, v, "whole")
     \/ Go(v, "sending_part", "send") /\ UNCHANGED hosts
  /\ todo' = [todo EXCEPT ![v] = @ \ {h}]
  /\ UNCHANGED <<holder, local_dir, server_side>>

\* mv to the hosts that are this one. Its result is not looked at.
MoveHere(v) ==
  /\ Go(v, "send", "touch") /\ todo[v] = {}
  /\ \/ /\ Local # {} /\ hdict[v] # "none"
        /\ copy' = [h \in DOMAIN copy |->
                      IF h \in Local THEN [copy[h] EXCEPT ![v] = hdict[v]] ELSE copy[h]]
        /\ hdict' = [hdict EXCEPT ![v] = "none"]
     \/ UNCHANGED <<copy, hdict>>
  /\ UNCHANGED <<todo, holder, tmp, flg, flag, uploads, server_side>>

TouchFlg(v) ==
  /\ Go(v, "touch", "flag") /\ tmp
  /\ flg' = TRUE
  /\ todo' = [todo EXCEPT ![v] = Remote]
  /\ UNCHANGED <<holder, tmp, hdict, hosts, server_side>>

SendFlg(v, h) ==
  /\ Go(v, "flag", "flag")
  /\ h \in todo[v] /\ flg
  /\ PutFlag(h, v)
  /\ todo' = [todo EXCEPT ![v] = @ \ {h}]
  /\ UNCHANGED <<holder, local_dir, server_side>>

\* mv of the flag, into a directory that is there or in vain.
MoveFlg(v) ==
  /\ Go(v, "flag", "clear") /\ todo[v] = {}
  /\ \/ /\ flg /\ flg' = FALSE
        /\ flag' = [h \in DOMAIN flag |->
             IF h \in Local /\ copy[h][v] # "none" THEN flag[h] \cup {v} ELSE flag[h]]
     \/ UNCHANGED <<flg, flag>>
  /\ UNCHANGED <<todo, holder, tmp, hdict, copy, uploads, server_side>>

Clear(v) ==
  /\ Exit(v, "clear")
  /\ tmp' = FALSE /\ hdict' = [u \in Version |-> "none"] /\ flg' = FALSE
  /\ UNCHANGED <<todo, hosts, server_side>>

\* Wrong: when an rsync fails the next host is served.
Fail_GoesOn(v) ==
  /\ Go(v, "sending", "send")
  /\ \E h \in todo[v] : CopyAt(h, v) = "part" /\ todo' = [todo EXCEPT ![v] = @ \ {h}]
  /\ UNCHANGED <<holder, local_dir, hosts, server_side>>

\* A command fails, and the run gives the lock back and exits; or it is killed
\* there. What it has sent stays.
Fail(v) ==
  /\ at[v] \notin {"new", "ended"} /\ Exit(v, at[v])
  /\ UNCHANGED <<todo, local_dir, hosts, server_side>>

Run(v) ==
  \/ Begin(v) \/ Wiped(v) \/ Check(v) \/ Lock(v) \/ Make(v)
  \/ \E h \in Host : Send(v, h) \/ Sent(v, h) \/ SendFlg(v, h)
  \/ MoveHere(v) \/ TouchFlg(v) \/ MoveFlg(v) \/ Clear(v) \/ Fail(v)

transfer == <<runs, local_dir, copy, flag>>

DeployInit == SupervisorInit /\ TransferInit

DeployNext ==
  \/ SupervisorNext /\ UNCHANGED transfer
  \/ \E v \in Version : Run(v)

DeploySpec == DeployInit /\ [][DeployNext]_transferVars

\* The script and the server it starts are never idle for ever: each command
\* returns, those that wait for the server have a limit.
DeployFairSpec ==
  /\ DeploySpec
  /\ WF_transferVars(ScriptStep /\ UNCHANGED transfer)
  /\ WF_transferVars(Load /\ UNCHANGED transfer)

CompleteAt(h, v) == CopyAt(h, v) = "whole" \/ v \in FlaggedAt(h) \/ (h = HERE /\ hdb[v] # "none")

\* A version is flagged only where it is complete, and at no host before every
\* host has it complete, or has had it: README.md:173, when all copies have been
\* made, and only then, done.flg is sent to each replica.
AllCopiedFirst ==
  [][\A h \in Host, v \in Version : v \in FlaggedAt(h)' \ FlaggedAt(h) =>
       CopyAt(h, v) = "whole" /\ \A r \in Host : CompleteAt(r, v)]_transferVars

\* The part of it that the code ensures when one run is under way at a time:
\* all hosts that rsync sends to are waited for. Those that mv serves are not.
RemoteCopiedFirst ==
  [][\A h \in Host, v \in Version : v \in FlaggedAt(h)' \ FlaggedAt(h) =>
       CopyAt(h, v) = "whole" /\ \A r \in Remote : CompleteAt(r, v)]_transferVars
=============================================================================
