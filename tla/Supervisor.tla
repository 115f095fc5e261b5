----------------------------- MODULE Supervisor -----------------------------
(***************************************************************************)
(* The script bin/lushan.sh, which starts the server, starts it again when *)
(* it does not answer, and mounts what is uploaded, on one host and for    *)
(* one dictionary number; with the server's reading of its init file. What *)
(* it has to remember is in the file system: directories, the flags done   *)
(* and choice in them, the files lushan.work and lushan.stop. The script,  *)
(* the server or both may die between any two commands, and in the middle  *)
(* of an rm -fr.                                                           *)
(*                                                                         *)
(* A version is a directory hdict_<time>. Versions are numbered in the     *)
(* order of the times of their done.flg, which mv and rsync -a keep.       *)
(* UPLOAD_PATH and HDB_PATH are on one file system: mv is a rename.        *)
(***************************************************************************)
EXTENDS Lists, FiniteSetsExt

CONSTANTS
  Versions,   \* bound: versions ever uploaded
  OpenTries,  \* times an open is tried (5 in the code)
  Deaths      \* bound: deaths of script and server, and stops, together

ASSUME SupervisorAssumption ==
  Versions \in Nat /\ OpenTries \in Nat \ {0} /\ Deaths \in Nat

Version == 1 .. Versions
NONE == 0
Dir == {"none", "part", "whole"}

VARIABLES
  upload,   \* directory of each version in UPLOAD_PATH
  updone,   \* versions with done.flg there
  hdb,      \* directory of each version in HDB_PATH
  done,     \* versions with done.flg there
  choice,   \* versions with choice.flg there, last touched last
  link,     \* what the symbolic link of the number leads to
  init,     \* whether lushan.init opens the number
  server,   \* "down", "loading" its init file, or "up"
  mounted,  \* the version it has mounted
  sh,       \* the command the script is at
  dataids,  \* versions it has listed and not dealt with yet
  tries,
  work,     \* lushan.work
  stop,     \* lushan.stop
  deaths

uploads == <<upload, updone>>
files == <<hdb, done, choice, link>>
process == <<server, mounted, init>>
operator == <<work, stop, deaths>>
supervisorVars == <<uploads, files, process, sh, dataids, tries, operator>>

SupervisorTypeOK ==
  /\ upload \in [Version -> Dir] /\ updone \subseteq Version
  /\ hdb \in [Version -> Dir] /\ done \subseteq Version
  /\ choice \in Seq(Version) /\ link \in Version \cup {NONE} /\ init \in BOOLEAN
  /\ server \in {"down", "loading", "up"} /\ mounted \in Version \cup {NONE}
  /\ sh \in {"off", "info", "stop", "end", "launch", "wait", "scan", "move", "clean", "list",
             "touch", "link", "open", "drop", "rm"}
  /\ dataids \subseteq Version /\ tries \in 0 .. OpenTries
  /\ work \in BOOLEAN /\ stop \in BOOLEAN /\ deaths \in 0 .. Deaths

SupervisorInit ==
  /\ upload = [v \in Version |-> "none"] /\ updone = {}
  /\ hdb = [v \in Version |-> "none"] /\ done = {} /\ choice = <<>>
  /\ link = NONE /\ init = FALSE
  /\ server = "down" /\ mounted = NONE
  /\ sh = "off" /\ dataids = {} /\ tries = 0
  /\ work = FALSE /\ stop = FALSE /\ deaths = 0

\* ls -t ... | head -1
Chosen == IF choice = <<>> THEN NONE ELSE Last(choice)
Newest == Max(dataids)

\* The choice flags but that of v.
Without(v) == IF v \in Range(choice) THEN Unlink(choice, v) ELSE choice

At(here, there) == sh = here /\ sh' = there

-----------------------------------------------------------------------------
(* The main loop: is the server to be stopped, does it answer? *)

\* With lushan.work there the script exits at once.
StartScript ==
  /\ At("off", "info") /\ ~work
  /\ work' = TRUE /\ stop' = FALSE
  /\ UNCHANGED <<uploads, files, process, dataids, tries, deaths>>

StopSeen ==
  /\ At("info", "stop") /\ stop
  /\ stop' = FALSE
  /\ UNCHANGED <<uploads, files, process, dataids, tries, work, deaths>>

StopServer ==
  /\ At("stop", "end")
  /\ server' = "down" /\ mounted' = NONE
  /\ UNCHANGED <<uploads, files, init, dataids, tries, operator>>

End ==
  /\ At("end", "off")
  /\ work' = FALSE
  /\ UNCHANGED <<uploads, files, process, dataids, tries, stop, deaths>>

\* While the server loads its port is open already, and nc waits for it.
InfoOk ==
  /\ At("info", "scan") /\ ~stop /\ server = "up"
  /\ UNCHANGED <<uploads, files, process, dataids, tries, operator>>

\* Writes the init file anew, and the link. The server is down: nobody sees
\* either half way, and a script that dies here starts here again.
InfoFails ==
  /\ At("info", "launch") /\ ~stop /\ server = "down"
  /\ link' = Chosen /\ init' = (Chosen # NONE)
  /\ UNCHANGED <<uploads, hdb, done, choice, server, mounted, dataids, tries, operator>>

Launch ==
  /\ At("launch", "wait")
  /\ server' = "loading"
  /\ UNCHANGED <<uploads, files, mounted, init, dataids, tries, operator>>

\* main: an open that fails is reported and no more. The strict mode that
\* usage() names cannot be asked for: getopt does not know -s.
Load ==
  /\ server = "loading" /\ server' = "up"
  /\ mounted' \in {NONE} \cup (IF init THEN {link} ELSE {})
  /\ UNCHANGED <<uploads, files, init, sh, dataids, tries, operator>>

ServerAnswers ==
  /\ At("wait", "scan") /\ server = "up"
  /\ init' = FALSE
  /\ UNCHANGED <<uploads, files, server, mounted, dataids, tries, operator>>

\* Wrong: it is waited for without end.
GiveUp_Never ==
  /\ At("wait", "wait") /\ server = "down"
  /\ UNCHANGED <<uploads, files, process, dataids, tries, operator>>

\* After twenty seconds.
GiveUp ==
  /\ At("wait", "info") /\ server = "down"
  /\ UNCHANGED <<uploads, files, process, dataids, tries, operator>>

-----------------------------------------------------------------------------
(* Mounting what is uploaded *)

Scan ==
  /\ dataids' = updone
  /\ At("scan", IF updone = {} THEN "info" ELSE "move")
  /\ UNCHANGED <<uploads, files, process, tries, operator>>

Move ==
  /\ At("move", "clean")
  /\ hdb' = [hdb EXCEPT ![Newest] = upload[Newest]]
  /\ done' = IF Newest \in updone THEN done \cup {Newest} ELSE done
  /\ upload' = [upload EXCEPT ![Newest] = "none"]
  /\ updone' = updone \ {Newest}
  /\ dataids' = dataids \ {Newest}
  /\ UNCHANGED <<choice, link, process, tries, operator>>

\* rm -fr of the next older upload: some of its files, done.flg among them or
\* not, then the rest.
Clean ==
  /\ At("clean", "clean") /\ dataids # {}
  /\ \/ /\ upload[Newest] = "whole"
        /\ upload' = [upload EXCEPT ![Newest] = "part"]
        /\ updone' \in {updone, updone \ {Newest}}
        /\ UNCHANGED dataids
     \/ /\ upload' = [upload EXCEPT ![Newest] = "none"]
        /\ updone' = updone \ {Newest}
        /\ dataids' = dataids \ {Newest}
  /\ UNCHANGED <<files, process, tries, operator>>

\* The second listing, of HDB_PATH.
List ==
  /\ dataids = {} /\ dataids' = done
  /\ At("clean", IF done = {} THEN "info" ELSE "touch")
  /\ UNCHANGED <<uploads, files, process, tries, operator>>

\* Wrong: sorted the other way round.
Touch_Oldest ==
  /\ At("touch", "link")
  /\ choice' = Append(Without(Min(dataids)), Min(dataids))
  /\ UNCHANGED <<uploads, hdb, done, link, process, dataids, tries, operator>>

\* Wrong: a number that has a choice keeps it.
Touch_First ==
  /\ At("touch", "link")
  /\ choice' = IF choice = <<>> THEN <<Newest>> ELSE choice
  /\ UNCHANGED <<uploads, hdb, done, link, process, dataids, tries, operator>>

Touch ==
  /\ At("touch", "link")
  /\ choice' = Append(Without(Newest), Newest)
  /\ UNCHANGED <<uploads, hdb, done, link, process, dataids, tries, operator>>

Relink ==
  /\ At("link", "open")
  /\ link' = Newest /\ tries' = 0
  /\ UNCHANGED <<uploads, hdb, done, choice, process, dataids, operator>>

\* open, answered OPENED or with an error, or by nobody. After the last try
\* the script goes on as if it had succeeded.
OpenOk ==
  /\ At("open", "drop") /\ server = "up"
  /\ mounted' = link
  /\ dataids' = dataids \ {Newest}
  /\ UNCHANGED <<uploads, files, server, init, tries, operator>>

\* Wrong: it is tried for ever.
OpenFails_Forever ==
  /\ At("open", "open") /\ UNCHANGED tries
  /\ UNCHANGED <<uploads, files, process, dataids, operator>>

OpenFails ==
  /\ tries' = tries + 1
  /\ IF tries' = OpenTries
     THEN At("open", "drop") /\ dataids' = dataids \ {Newest}
     ELSE At("open", "open") /\ UNCHANGED dataids
  /\ UNCHANGED <<uploads, files, process, operator>>

\* The older versions: choice.flg, then all the rest.
DropChoice ==
  /\ At("drop", "rm") /\ dataids # {}
  /\ choice' = Without(Newest)
  /\ UNCHANGED <<uploads, hdb, done, link, process, dataids, tries, operator>>

DropFiles ==
  /\ \/ /\ At("rm", "rm") /\ hdb[Newest] = "whole"
        /\ hdb' = [hdb EXCEPT ![Newest] = "part"]
        /\ done' \in {done, done \ {Newest}}
        /\ UNCHANGED dataids
     \/ /\ At("rm", "drop")
        /\ hdb' = [hdb EXCEPT ![Newest] = "none"]
        /\ done' = done \ {Newest}
        /\ dataids' = dataids \ {Newest}
  /\ UNCHANGED <<uploads, choice, link, process, tries, operator>>

Dropped ==
  /\ At("drop", "info") /\ dataids = {}
  /\ UNCHANGED <<uploads, files, process, dataids, tries, operator>>

ScriptStep ==
  \/ StopSeen \/ StopServer \/ End
  \/ InfoOk \/ InfoFails \/ Launch \/ ServerAnswers \/ GiveUp
  \/ Scan \/ Move \/ Clean \/ List \/ Touch \/ Relink \/ OpenOk \/ OpenFails
  \/ DropChoice \/ DropFiles \/ Dropped

-----------------------------------------------------------------------------
(* What happens to them *)

Death(what) == what /\ deaths < Deaths /\ deaths' = deaths + 1

\* It forgets what it has listed.
ScriptDies ==
  /\ sh # "off" /\ sh' = "off" /\ dataids' = {} /\ tries' = 0
  /\ UNCHANGED <<uploads, files, process, work, stop>>

ServerDies ==
  /\ server # "down" /\ server' = "down" /\ mounted' = NONE
  /\ UNCHANGED <<uploads, files, init, sh, dataids, tries, work, stop>>

OperatorStops ==
  /\ ~stop /\ sh # "off" /\ stop' = TRUE
  /\ UNCHANGED <<uploads, files, process, sh, dataids, tries, work>>

\* A script that was killed leaves lushan.work, and nothing in the repository
\* removes it then: somebody has to.
OperatorCleans ==
  /\ sh = "off" /\ work /\ work' = FALSE
  /\ UNCHANGED <<uploads, files, process, sh, dataids, tries, stop, deaths>>

SupervisorNext ==
  \/ StartScript \/ ScriptStep \/ Load
  \/ Death(ScriptDies) \/ Death(ServerDies) \/ Death(OperatorStops) \/ OperatorCleans

-----------------------------------------------------------------------------
(* Correctness *)

\* The server opens complete versions only, be it as they are uploaded or from
\* its init file: never one whose upload is not flagged, never what an
\* interrupted rm -fr has left.
OpensWhole ==
  [][mounted' # mounted /\ mounted' # NONE => hdb[mounted'] = "whole"]_supervisorVars

\* Whenever script and server die, the next start finds a complete version to
\* choose, at least as new as the one that was served.
RestartKeepsUp ==
  mounted # NONE => Chosen >= mounted /\ hdb[Chosen] = "whole" /\ Chosen \in done

\* The choice goes forward, and no version served is followed by an older one
\* as long as the server lives.
OnlyForward ==
  [][/\ Chosen' >= Chosen
     /\ mounted' # NONE => mounted' >= mounted]_supervisorVars

\* A server that dies is started again, unless the script ends.
ServedAgain == server = "down" /\ sh # "off" ~> server = "up" \/ sh = "off"

\* An upload that is flagged is chosen, or a newer one is, unless the script
\* ends: no death of the server and no open that fails gets in its way.
FlaggedIsChosen ==
  \A v \in Version : v \in updone ~> (Chosen >= v \/ sh = "off")
=============================================================================
