---------------------------- MODULE DeployProofs ----------------------------
(***************************************************************************)
(* Proofs about the supervisor alone, with anything at all happening to    *)
(* its uploads: what a script that may die between any two commands relies *)
(* on (ScriptInv). And about it and the transfer, composed, when one run   *)
(* of the transfer is under way at a time: that only complete versions get *)
(* to be chosen (WholeInv).                                                *)
(***************************************************************************)
EXTENDS Transfer, ListProofs, FiniteSetTheorems, WellFoundedInduction

\* What each command of the script may rely on, from the ones before it.
ScriptInv ==
  /\ Linear(choice)
  /\ choice # <<>> => Chosen \in done
  /\ Chosen >= mounted
  /\ server # "up" => mounted = NONE
  /\ server = "loading" => sh \in {"wait", "info", "off", "stop", "end"}
  /\ server = "loading" /\ init => link = Chosen
  /\ sh = "launch" => server = "down" /\ link = Chosen
  /\ sh \in {"touch", "link", "open"} => dataids = done /\ done # {}
  /\ sh \in {"link", "open"} => choice # <<>> /\ Chosen = Newest
  /\ sh = "open" => link = Chosen /\ tries < OpenTries
  /\ sh \in {"drop", "rm"} => choice # <<>> /\ \A v \in dataids : v < Chosen
  /\ sh = "rm" => dataids # {}

\* Anybody may write to the upload directories: versions arrive, change and go,
\* flagged or not, in any order of their numbers.
Uploading ==
  /\ upload' \in [Version -> Dir] /\ updone' \in SUBSET Version
  /\ UNCHANGED <<files, process, sh, dataids, tries, operator>>

ServedUploads == SupervisorInit /\ [][SupervisorNext \/ Uploading]_supervisorVars

\* Before the run of v has sent the flag to HERE.
Unflagged(v) == at[v] \notin {"flag", "clear", "ended"} \/ (at[v] = "flag" /\ HERE \in todo[v])

NewerWhole(v) == \E u \in done : u > v /\ hdb[u] = "whole"

RunsInOrder == \A v, u \in Version : v < u /\ at[v] # "ended" => at[u] = "new"

FlaggedOnce ==
  /\ \A v \in Version : Unflagged(v) => v \notin updone /\ v \notin done
  /\ updone \cap done = {}

SendsWhole ==
  \A v \in Version :
    /\ todo[v] \subseteq Remote
    /\ at[v] # "sending_part"
    /\ at[v] \in {"send", "sending"} => hdict[v] = "whole"
    /\ at[v] \in {"send", "sending"} => \A h \in Remote \ todo[v] : CopyAt(h, v) = "whole"
    /\ at[v] = "touch" => \A h \in Remote : CopyAt(h, v) = "whole"
    /\ at[v] = "flag" => \A h \in Remote : CopyAt(h, v) = "whole" \/
                            (h = HERE /\ HERE \notin todo[v] /\ hdb[v] = "whole")
    /\ \A h \in Local : copy[h][v] \in {"none", "whole"}

ListedWhole ==
  /\ \A v \in updone : upload[v] = "whole" \/ NewerWhole(v)
  /\ \A v \in done : hdb[v] = "whole" \/ NewerWhole(v)
  /\ sh = "move" => dataids # {} /\ dataids \subseteq updone
  /\ sh = "clean" => \A v \in dataids : NewerWhole(v)
  /\ choice # <<>> => hdb[Chosen] = "whole"

WholeInv == RunsInOrder /\ FlaggedOnce /\ SendsWhole /\ ListedWhole

-----------------------------------------------------------------------------

\* A set of numbers up to n that is not empty has a greatest one: its members,
\* ordered by what is above them, are well founded.
LEMMA MaxInside ==
  ASSUME NEW n \in Nat, NEW S \in SUBSET (1 .. n), S # {}
  PROVE  Max(S) \in S /\ \A v \in S : v <= Max(S)
<1> DEFINE Above(v) == {u \in S : u > v}
           T == {Above(v) : v \in S}
<1>0. S \subseteq Int
  OBVIOUS
<1>1. IsWellFoundedOn(StrictSubsetOrdering(S), SUBSET S)
  <2>1. IsFiniteSet(1 .. n)
    BY FS_Interval
  <2>2. IsFiniteSet(S)
    BY <2>1, FS_Subset
  <2> QED BY <2>2, FS_StrictSubsetOrderingWellFounded, FS_FiniteSubsetsOfFinite
<1>2. T \subseteq SUBSET S /\ T # {}
  <2>1. \A v \in S : Above(v) \in SUBSET S
    OBVIOUS
  <2>2. PICK v \in S : TRUE
    OBVIOUS
  <2>3. Above(v) \in T
    OBVIOUS
  <2> HIDE DEF Above
  <2> QED BY <2>1, <2>3
<1> HIDE DEF T
<1>3. PICK t \in T : \A w \in T : ~ (<<w, t>> \in StrictSubsetOrdering(S))
  BY <1>1, <1>2, WFMin
<1>4. PICK v \in S : t = Above(v)
  BY <1>3 DEF T
<1>5. \A u \in S : u <= v
  <2> SUFFICES ASSUME NEW u \in S, u > v PROVE FALSE
    BY <1>0
  <2>1. Above(u) \in T
    BY DEF T
  <2>2. Above(u) \subseteq Above(v) /\ u \in Above(v) /\ u \notin Above(u)
    <3>1. \A w \in S : w > u => w > v
      BY <1>0
    <3>2. u \in Above(v)
      OBVIOUS
    <3>3. u \notin Above(u)
      BY <1>0
    <3> QED BY <3>1, <3>2, <3>3
  <2> HIDE DEF Above
  <2>3. Above(u) \in SUBSET S /\ Above(v) \in SUBSET S
    BY DEF Above
  <2>4. <<Above(u), Above(v)>> \in StrictSubsetOrdering(S)
    BY <2>2, <2>3 DEF StrictSubsetOrdering
  <2> QED BY <1>3, <1>4, <2>1, <2>4
<1> QED BY <1>5 DEF Max

\* The head of the listing is the newest version of it.
LEMMA NewestIs ==
  ASSUME dataids \subseteq Version, dataids # {}
  PROVE  /\ Newest \in dataids /\ Newest \in Version
         /\ \A v \in dataids : v <= Newest
<1>1. dataids \in SUBSET (1 .. Versions) /\ Versions \in Nat
  BY SupervisorAssumption DEF Version
<1> QED BY <1>1, MaxInside DEF Newest, Version

\* What ls -t finds first is one of the choices.
LEMMA ChosenIs ==
  ASSUME choice \in Seq(Version)
  PROVE  /\ choice = <<>> => Chosen = NONE
         /\ choice # <<>> => Chosen \in Version /\ Chosen = Last(choice)
         /\ Chosen \in Version \cup {NONE}
<1>1. ASSUME choice # <<>> PROVE choice[Len(choice)] \in Version
  BY <1>1
<1> QED BY <1>1 DEF Chosen, Last

\* rm choice.flg takes one choice away, and no other one comes first for it.
LEMMA WithoutRemoves ==
  ASSUME choice \in Seq(Version), Linear(choice), NEW e \in Version
  PROVE  /\ Without(e) \in Seq(Version) /\ Linear(Without(e))
         /\ e \notin Range(Without(e))
         /\ choice # <<>> /\ Last(choice) # e =>
              Without(e) # <<>> /\ Last(Without(e)) = Last(choice)
<1>1. CASE e \in Range(choice)
  BY <1>1, UnlinkRemoves, UnlinkKeepsLast DEF Without
<1>2. CASE e \notin Range(choice)
  BY <1>2 DEF Without
<1> QED BY <1>1, <1>2

\* touch puts one choice before all others.
LEMMA TouchedIsChosen ==
  ASSUME choice \in Seq(Version), Linear(choice), NEW e \in Version,
         choice' = Append(Without(e), e)
  PROVE  choice' \in Seq(Version) /\ Linear(choice)' /\ choice' # <<>> /\ Chosen' = e
<1> DEFINE w == Without(e)
<1>1. w \in Seq(Version) /\ Linear(w) /\ e \notin Range(w)
  BY WithoutRemoves
<1> HIDE DEF w
<1>2. Append(w, e) \in Seq(Version) /\ Linear(Append(w, e))
  BY <1>1, AppendLinks
<1>3. Append(w, e) # <<>> /\ Last(Append(w, e)) = e
  BY <1>1 DEF Last
<1>4. choice' = Append(w, e)
  BY DEF w
<1> QED BY <1>2, <1>3, <1>4 DEF Chosen, Linear

-----------------------------------------------------------------------------
(* The script, whatever the runs of the transfer do *)

\* The initial state satisfies the type invariants and what the script needs.
LEMMA ScriptInit ==
  SupervisorInit => SupervisorTypeOK /\ ScriptInv
<1> SUFFICES ASSUME SupervisorInit PROVE SupervisorTypeOK /\ ScriptInv
  OBVIOUS
<1> USE SupervisorAssumption
<1>1. choice = <<>> /\ <<>> \in Seq(Version) /\ Linear(<<>>)
  BY DEF SupervisorInit, Linear
<1>2. SupervisorTypeOK
  <2>1. choice \in Seq(Version)
    BY <1>1
  <2>2. hdb \in [Version -> Dir] /\ upload \in [Version -> Dir]
    BY DEF SupervisorInit, Dir
  <2>3. tries \in 0 .. OpenTries /\ deaths \in 0 .. Deaths
    BY DEF SupervisorInit
  <2>4. init \in BOOLEAN /\ work \in BOOLEAN /\ stop \in BOOLEAN
    BY DEF SupervisorInit
  <2> QED BY <2>1, <2>2, <2>3, <2>4 DEF SupervisorInit, SupervisorTypeOK
<1>3. ScriptInv
  BY <1>1 DEF SupervisorInit, ScriptInv, Chosen, NONE
<1> QED BY <1>2, <1>3

\* Every step of the script, the server and the operator keeps the types.
LEMMA SupervisorTypeNext ==
  ASSUME SupervisorTypeOK, ScriptInv, SupervisorNext
  PROVE  SupervisorTypeOK'
<1> USE SupervisorAssumption
<1> USE DEF SupervisorTypeOK, uploads, files, process, operator, At
<1>1. CASE StartScript BY <1>1 DEF StartScript
<1>2. CASE StopSeen BY <1>2 DEF StopSeen
<1>3. CASE StopServer BY <1>3 DEF StopServer
<1>4. CASE End BY <1>4 DEF End
<1>5. CASE InfoOk BY <1>5 DEF InfoOk
<1>6. CASE InfoFails BY <1>6, ChosenIs DEF InfoFails
<1>7. CASE Launch BY <1>7 DEF Launch
<1>8. CASE ServerAnswers BY <1>8 DEF ServerAnswers
<1>9. CASE GiveUp BY <1>9 DEF GiveUp
<1>10. CASE Scan BY <1>10 DEF Scan
<1>11. CASE Move
  <2>1. hdb' \in [Version -> Dir] /\ upload' \in [Version -> Dir]
    BY <1>11 DEF Move, Dir
  <2>2. done' \subseteq Version
    BY <1>11 DEF Move
  <2> QED BY <1>11, <2>1, <2>2 DEF Move
<1>12. CASE Clean BY <1>12 DEF Clean, Dir
<1>13. CASE List BY <1>13 DEF List
<1>14. CASE Touch
  <2>1. Newest \in Version /\ Linear(choice)
    BY <1>14, NewestIs DEF Touch, ScriptInv
  <2>2. choice' \in Seq(Version)
    BY <1>14, <2>1, TouchedIsChosen DEF Touch
  <2> QED BY <1>14, <2>2 DEF Touch
<1>15. CASE Relink
  <2>1. Newest \in Version
    BY <1>15, NewestIs DEF Relink, ScriptInv
  <2> QED BY <1>15, <2>1 DEF Relink
<1>16. CASE OpenOk BY <1>16 DEF OpenOk
<1>17. CASE OpenFails BY <1>17 DEF OpenFails, ScriptInv
<1>18. CASE DropChoice
  <2>1. Newest \in Version /\ Linear(choice)
    BY <1>18, NewestIs DEF DropChoice, ScriptInv
  <2>2. choice' \in Seq(Version)
    BY <1>18, <2>1, WithoutRemoves DEF DropChoice
  <2> QED BY <1>18, <2>2 DEF DropChoice
<1>19. CASE DropFiles BY <1>19 DEF DropFiles, Dir
<1>20. CASE Dropped BY <1>20 DEF Dropped
<1>21. CASE Load BY <1>21 DEF Load
<1>22. CASE Death(ScriptDies) BY <1>22 DEF Death, ScriptDies
<1>23. CASE Death(ServerDies) BY <1>23 DEF Death, ServerDies
<1>24. CASE Death(OperatorStops) BY <1>24 DEF Death, OperatorStops
<1>25. CASE OperatorCleans BY <1>25 DEF OperatorCleans
<1> QED BY <1>1, <1>2, <1>3, <1>4, <1>5, <1>6, <1>7, <1>8, <1>9, <1>10, <1>11, <1>12, <1>13,
           <1>14, <1>15, <1>16, <1>17, <1>18, <1>19, <1>20, <1>21, <1>22, <1>23, <1>24, <1>25
        DEF SupervisorNext, ScriptStep


\* Every step of theirs keeps what the script needs.
LEMMA ScriptInvNext ==
  ASSUME SupervisorTypeOK, ScriptInv, SupervisorNext
  PROVE  ScriptInv'
<1> USE SupervisorAssumption
<1>0. /\ choice \in Seq(Version) /\ dataids \subseteq Version /\ done \subseteq Version
      /\ Version \subseteq Int /\ mounted \in Int /\ Linear(choice) /\ Chosen \in Int
      /\ \A v \in Version : v > NONE
  <2>1. /\ choice \in Seq(Version) /\ dataids \subseteq Version /\ done \subseteq Version
        /\ mounted \in Version \cup {NONE} /\ Linear(choice)
    BY DEF SupervisorTypeOK, ScriptInv
  <2>2. Version \subseteq Int /\ NONE \in Int /\ \A v \in Version : v > NONE
    BY DEF Version, NONE
  <2> QED BY <2>1, <2>2, ChosenIs
<1>a. UNCHANGED choice => Chosen' = Chosen /\ Linear(choice)'
  BY <1>0 DEF Chosen
<1>b. UNCHANGED dataids => Newest' = Newest
  BY DEF Newest
<1>c. choice # <<>> => Chosen \in Version /\ Chosen = Last(choice)
  BY <1>0, ChosenIs
<1>d. choice = <<>> => Chosen = NONE
  BY <1>0, ChosenIs
<1>e. dataids # {} => Newest \in dataids /\ Newest \in Version /\ \A v \in dataids : v <= Newest
  BY <1>0, NewestIs
<1>f. /\ NONE \in Int /\ Chosen >= NONE
      /\ dataids # {} => Newest \in Int /\ Newest >= NONE
  BY <1>0, <1>c, <1>d, <1>e DEF Version, NONE
<1> USE DEF uploads, files, process, operator, At
<1>1. CASE StartScript BY <1>1, <1>a DEF StartScript, ScriptInv
<1>2. CASE StopSeen BY <1>2, <1>a DEF StopSeen, ScriptInv
<1>3. CASE StopServer
  <2> QED BY <1>3, <1>a, <1>f DEF StopServer, ScriptInv
<1>4. CASE End BY <1>4, <1>a DEF End, ScriptInv
<1>5. CASE InfoOk BY <1>5, <1>a DEF InfoOk, ScriptInv
<1>6. CASE InfoFails BY <1>6, <1>a DEF InfoFails, ScriptInv
<1>7. CASE Launch BY <1>7, <1>a DEF Launch, ScriptInv
<1>8. CASE ServerAnswers BY <1>8, <1>a DEF ServerAnswers, ScriptInv
<1>9. CASE GiveUp BY <1>9, <1>a DEF GiveUp, ScriptInv
<1>10. CASE Scan BY <1>10, <1>a DEF Scan, ScriptInv
<1>11. CASE Move BY <1>11, <1>a DEF Move, ScriptInv
<1>12. CASE Clean BY <1>12, <1>a DEF Clean, ScriptInv
<1>13. CASE List BY <1>13, <1>a DEF List, ScriptInv
<1>14. CASE Touch
  <2>1. dataids = done /\ dataids # {} /\ choice' = Append(Without(Newest), Newest)
    BY <1>14 DEF Touch, ScriptInv
  <2>2. Linear(choice)' /\ choice' # <<>> /\ Chosen' = Newest
    BY <1>0, <1>e, <2>1, TouchedIsChosen
  <2>3. Chosen <= Newest
    <3>1. choice # <<>> => Chosen \in dataids
      BY <2>1 DEF ScriptInv
    <3>2. choice = <<>> => Chosen <= Newest
      BY <1>d, <1>f, <2>1
    <3>3. choice # <<>> => Chosen <= Newest
      BY <1>e, <2>1, <3>1
    <3> QED BY <3>2, <3>3
  <2>4. Newest >= mounted
    BY <1>0, <1>f, <2>1, <2>3 DEF ScriptInv
  <2> QED BY <1>14, <1>b, <1>e, <2>1, <2>2, <2>4 DEF Touch, ScriptInv
<1>15. CASE Relink BY <1>15, <1>a, <1>b DEF Relink, ScriptInv
<1>16. CASE OpenOk
  <2>1. choice # <<>> /\ Chosen = Newest /\ link = Chosen /\ dataids # {}
    BY <1>16 DEF OpenOk, ScriptInv
  <2>2. \A v \in dataids \ {Newest} : v < Chosen
    BY <1>0, <1>e, <2>1
  <2> QED BY <1>0, <1>16, <1>a, <2>1, <2>2 DEF OpenOk, ScriptInv
<1>17. CASE OpenFails
  <2>1. choice # <<>> /\ Chosen = Newest /\ link = Chosen /\ dataids # {} /\ tries < OpenTries
    BY <1>17 DEF OpenFails, ScriptInv
  <2>2. \A v \in dataids \ {Newest} : v < Chosen
    BY <1>0, <1>e, <2>1
  <2>3. tries \in Nat /\ tries' = tries + 1
    BY <1>17 DEF OpenFails, SupervisorTypeOK
  <2>4. CASE tries' = OpenTries
    <3>1. sh' = "drop" /\ dataids' = dataids \ {Newest}
      BY <1>17, <2>4 DEF OpenFails
    <3> QED BY <1>17, <1>a, <2>1, <2>2, <3>1 DEF OpenFails, ScriptInv
  <2>5. CASE tries' # OpenTries
    <3>1. sh' = "open" /\ UNCHANGED dataids
      BY <1>17, <2>5 DEF OpenFails
    <3>2. tries' < OpenTries
      BY <2>1, <2>3, <2>5
    <3> QED BY <1>17, <1>a, <1>b, <2>1, <3>1, <3>2 DEF OpenFails, ScriptInv
  <2> QED BY <2>4, <2>5
<1>18. CASE DropChoice
  <2>1. choice # <<>> /\ Newest # Last(choice) /\ Newest \in Version
    BY <1>0, <1>18, <1>c, <1>e DEF DropChoice, ScriptInv
  <2>2. /\ choice' = Without(Newest) /\ Without(Newest) # <<>>
        /\ Last(Without(Newest)) = Last(choice) /\ Linear(Without(Newest))
    BY <1>0, <1>18, <2>1, WithoutRemoves DEF DropChoice
  <2>3. choice' # <<>> /\ Chosen' = Chosen /\ Linear(choice)'
    BY <2>1, <2>2 DEF Chosen, Linear
  <2> QED BY <1>18, <1>b, <2>1, <2>3 DEF DropChoice, ScriptInv
<1>19. CASE DropFiles
  <2>1. choice # <<>> /\ Newest # Chosen
    BY <1>0, <1>19, <1>e DEF DropFiles, ScriptInv
  <2> QED BY <1>19, <1>a, <2>1 DEF DropFiles, ScriptInv
<1>20. CASE Dropped BY <1>20, <1>a DEF Dropped, ScriptInv
<1>21. CASE Load
  <2>1. mounted' = NONE \/ mounted' = Chosen
    BY <1>21 DEF Load, ScriptInv
  <2>2. Chosen >= mounted'
    BY <1>0, <1>f, <2>1
  <2> QED BY <1>21, <1>a, <2>2 DEF Load, ScriptInv
<1>22. CASE Death(ScriptDies) BY <1>22, <1>a DEF Death, ScriptDies, ScriptInv
<1>23. CASE Death(ServerDies)
  <2> QED BY <1>23, <1>a, <1>b, <1>f DEF Death, ServerDies, ScriptInv
<1>24. CASE Death(OperatorStops) BY <1>24, <1>a, <1>b DEF Death, OperatorStops, ScriptInv
<1>25. CASE OperatorCleans BY <1>25, <1>a DEF OperatorCleans, ScriptInv
<1> QED BY <1>1, <1>2, <1>3, <1>4, <1>5, <1>6, <1>7, <1>8, <1>9, <1>10, <1>11, <1>12, <1>13,
           <1>14, <1>15, <1>16, <1>17, <1>18, <1>19, <1>20, <1>21, <1>22, <1>23, <1>24, <1>25
        DEF SupervisorNext, ScriptStep

\* The types and what the script needs are an invariant of the supervisor,
\* whatever is done to its uploads.
LEMMA UploadsNext ==
  SupervisorTypeOK /\ ScriptInv /\ [SupervisorNext \/ Uploading]_supervisorVars
    => (SupervisorTypeOK /\ ScriptInv)'
<1> SUFFICES ASSUME SupervisorTypeOK, ScriptInv, [SupervisorNext \/ Uploading]_supervisorVars
             PROVE  (SupervisorTypeOK /\ ScriptInv)'
  OBVIOUS
<1>1. CASE SupervisorNext
  BY <1>1, SupervisorTypeNext, ScriptInvNext
<1>2. CASE Uploading
  <2>1. SupervisorTypeOK'
    BY <1>2 DEF Uploading, SupervisorTypeOK, files, process, operator
  <2>2. ScriptInv'
    BY <1>2 DEF Uploading, ScriptInv, Chosen, Newest, Linear, files, process
  <2> QED BY <2>1, <2>2
<1>3. CASE UNCHANGED supervisorVars
  BY <1>3 DEF SupervisorTypeOK, ScriptInv, Chosen, Newest, Linear, supervisorVars, uploads, files,
              process, operator
<1> QED BY <1>1, <1>2, <1>3

\* The script finds what it relies on at each of its commands, whatever dies
\* before it and whatever is uploaded meanwhile.
THEOREM ScriptInvariant == ServedUploads => [](SupervisorTypeOK /\ ScriptInv)
<1> QED BY ScriptInit, UploadsNext, PTL DEF ServedUploads

\* The choice and the version mounted change with four commands only.
LEMMA ForwardStep ==
  SupervisorTypeOK /\ ScriptInv /\ (SupervisorNext \/ Uploading)
    => [/\ Chosen' >= Chosen
        /\ mounted' # NONE => mounted' >= mounted]_supervisorVars
<1> SUFFICES ASSUME SupervisorTypeOK, ScriptInv, SupervisorNext \/ Uploading
             PROVE  Chosen' >= Chosen /\ (mounted' # NONE => mounted' >= mounted)
  OBVIOUS
<1>0. /\ choice \in Seq(Version) /\ mounted \in Int /\ Chosen \in Int /\ Chosen >= NONE
      /\ choice # <<>> => Chosen \in Version /\ Chosen = Last(choice)
      /\ choice = <<>> => Chosen = NONE
  <2>1. choice \in Seq(Version) /\ mounted \in Version \cup {NONE}
    BY DEF SupervisorTypeOK
  <2>2. Version \subseteq Int /\ NONE \in Int /\ \A v \in Version \cup {NONE} : v >= NONE
    BY DEF Version, NONE
  <2>3. Chosen >= NONE
    BY <2>1, <2>2, ChosenIs
  <2> QED BY <2>1, <2>2, <2>3, ChosenIs
<1>1. Chosen' >= Chosen
  <2>1. CASE UNCHANGED choice
    BY <1>0, <2>1 DEF Chosen
  <2>2. CASE Touch
    <3>1. /\ dataids = done /\ dataids # {} /\ dataids \subseteq Version /\ Linear(choice)
          /\ choice' = Append(Without(Newest), Newest)
      BY <2>2 DEF Touch, At, ScriptInv, SupervisorTypeOK
    <3>2. Newest \in Version /\ \A v \in dataids : v <= Newest
      BY <3>1, NewestIs
    <3>3. Chosen' = Newest
      BY <1>0, <3>1, <3>2, TouchedIsChosen
    <3>4. CASE choice = <<>>
      BY <1>0, <3>2, <3>3, <3>4 DEF Version, NONE
    <3>5. CASE choice # <<>>
      <4>1. Chosen \in dataids
        BY <3>1, <3>5 DEF ScriptInv
      <4>2. Chosen <= Newest
        BY <3>2, <4>1
      <4> QED BY <1>0, <3>2, <3>3, <4>2 DEF Version
    <3> QED BY <3>4, <3>5
  <2>3. CASE DropChoice
    <3>1. /\ choice # <<>> /\ dataids # {} /\ dataids \subseteq Version /\ Linear(choice)
          /\ choice' = Without(Newest) /\ \A v \in dataids : v < Chosen
      BY <2>3 DEF DropChoice, At, ScriptInv, SupervisorTypeOK
    <3>2. Newest \in Version /\ Newest < Chosen
      BY <3>1, NewestIs
    <3>3. Newest # Last(choice)
      BY <1>0, <3>1, <3>2 DEF Version
    <3>4. choice' # <<>> /\ Last(choice') = Last(choice)
      BY <1>0, <3>1, <3>2, <3>3, WithoutRemoves
    <3> QED BY <1>0, <3>1, <3>4 DEF Chosen
  <2>4. UNCHANGED choice \/ Touch \/ DropChoice
    BY DEF Uploading, SupervisorNext, ScriptStep, StartScript, StopSeen, StopServer, End,
       InfoOk, InfoFails, Launch, Load, ServerAnswers, GiveUp, Scan, Move, Clean, List, Relink,
       OpenOk, OpenFails, DropFiles, Dropped, Death, ScriptDies, ServerDies, OperatorStops,
       OperatorCleans, files
  <2> QED BY <2>1, <2>2, <2>3, <2>4
<1>2. ASSUME mounted' # NONE PROVE mounted' >= mounted
  <2>1. CASE UNCHANGED mounted
    BY <1>0, <2>1
  <2>2. CASE Load
    <3>1. mounted = NONE /\ mounted' = Chosen
      BY <1>2, <2>2 DEF Load, ScriptInv
    <3> QED BY <1>0, <3>1
  <2>3. CASE OpenOk
    <3>1. mounted' = Chosen /\ Chosen >= mounted
      BY <2>3 DEF OpenOk, At, ScriptInv
    <3> QED BY <3>1
  <2>4. UNCHANGED mounted \/ mounted' = NONE \/ Load \/ OpenOk
    BY DEF Uploading, SupervisorNext, ScriptStep, StartScript, StopSeen, StopServer, End,
       InfoOk, InfoFails, Launch, ServerAnswers, GiveUp, Scan, Move, Clean, List, Touch, Relink,
       OpenFails, DropChoice, DropFiles, Dropped, Death, ScriptDies, ServerDies, OperatorStops,
       OperatorCleans, process
  <2> QED BY <1>2, <2>1, <2>2, <2>3, <2>4
<1> QED BY <1>1, <1>2

\* The choice goes forward, and no version served is followed by an older one
\* as long as the server lives: whatever dies between the commands of the
\* script, and in whatever order the flags of the versions arrive, the times of
\* which number them.
THEOREM OnlyForwardHolds == ServedUploads => OnlyForward
<1>1. SupervisorTypeOK /\ ScriptInv /\ [SupervisorNext \/ Uploading]_supervisorVars
        => [/\ Chosen' >= Chosen
            /\ mounted' # NONE => mounted' >= mounted]_supervisorVars
  BY ForwardStep
<1> QED BY <1>1, ScriptInvariant, PTL DEF ServedUploads, OnlyForward

-----------------------------------------------------------------------------
(* The composition *)

\* Sending to one host touches its directory of that version only.
LEMMA PutTypes ==
  ASSUME TransferTypeOK, SupervisorTypeOK,
         NEW h \in Host, NEW v \in Version, NEW dir \in Dir, Put(h, v, dir)
  PROVE  /\ upload' \in [Version -> Dir] /\ updone' = updone /\ flag' = flag
         /\ copy' \in [Host \ {HERE} -> [Version -> Dir]]
         /\ CopyAt(h, v)' = dir
         /\ \A g \in Host, u \in Version : g # h \/ u # v => CopyAt(g, u)' = CopyAt(g, u)
<1> USE TransferAssumption DEF TransferTypeOK, SupervisorTypeOK
<1>1. CASE h = HERE
  BY <1>1 DEF Put, CopyAt
<1>2. CASE h # HERE
  <2>1. /\ UNCHANGED <<upload, updone, flag>>
        /\ copy' = [copy EXCEPT ![h] = [copy[h] EXCEPT ![v] = dir]]
    BY <1>2 DEF Put, uploads
  <2>2. [copy[h] EXCEPT ![v] = dir] \in [Version -> Dir]
    BY <1>2
  <2>3. copy' \in [Host \ {HERE} -> [Version -> Dir]]
    BY <2>1, <2>2
  <2>4. copy'[h][v] = dir /\ \A g \in Host \ {HERE}, u \in Version :
          g # h \/ u # v => copy'[g][u] = copy[g][u]
    BY <1>2, <2>1
  <2> QED BY <1>2, <2>1, <2>3, <2>4 DEF CopyAt
<1> QED BY <1>1, <1>2

\* Every step of a run keeps the types, and all that belongs to the server
\* but the uploads.
LEMMA RunTypeNext ==
  ASSUME DeployTypeOK, NEW v \in Version, Run(v)
  PROVE  DeployTypeOK' /\ UNCHANGED server_side
<1> USE SupervisorAssumption, TransferAssumption
<1>0. SupervisorTypeOK /\ TransferTypeOK
  BY DEF DeployTypeOK
<1>a. UNCHANGED server_side
  BY DEF Run, Begin, Wiped, Check, Lock, Make, Send, Sent, SendFlg, MoveHere, TouchFlg, MoveFlg,
         Clear, Fail
<1>b. /\ at' \in [Version -> {"new", "wipe", "check", "lock", "make", "send", "sending",
                              "sending_part", "touch", "flag", "clear", "ended"}]
      /\ holder' \in Version \cup {NONE}
  BY <1>0 DEF Run, Begin, Wiped, Check, Lock, Make, Send, Sent, SendFlg, MoveHere, TouchFlg,
              MoveFlg, Clear, Fail, Go, Exit, Unlock, TransferTypeOK
<1>c. todo' \in [Version -> SUBSET Host]
  <2>1. UNCHANGED todo \/ todo' = [todo EXCEPT ![v] = Remote]
        \/ \E h \in Host : todo' = [todo EXCEPT ![v] = todo[v] \ {h}]
    BY <1>0 DEF Run, Begin, Wiped, Check, Lock, Make, Send, Sent, SendFlg, MoveHere, TouchFlg,
                MoveFlg, Clear, Fail, TransferTypeOK
  <2> QED BY <1>0, <2>1 DEF TransferTypeOK, Remote
<1>d. hdict' \in [Version -> Dir] /\ tmp' \in BOOLEAN /\ flg' \in BOOLEAN
  <2>1. UNCHANGED hdict \/ hdict' = [u \in Version |-> IF hdict[u] = "whole" THEN "part" ELSE hdict[u]]
        \/ hdict' = [u \in Version |-> "none"]
        \/ \E d \in {"none", "whole"} : hdict' = [hdict EXCEPT ![v] = d]
    BY DEF Run, Begin, Wiped, Check, Lock, Make, Send, Sent, SendFlg, MoveHere, TouchFlg,
           MoveFlg, Clear, Fail, local_dir
  <2>2. hdict' \in [Version -> Dir]
    BY <1>0, <2>1 DEF TransferTypeOK, Dir
  <2>3. UNCHANGED <<tmp, flg>> \/ (tmp' \in {TRUE, FALSE} /\ flg' \in {flg, TRUE, FALSE})
        \/ (flg' \in {TRUE, FALSE} /\ tmp' = tmp)
    BY DEF Run, Begin, Wiped, Check, Lock, Make, Send, Sent, SendFlg, MoveHere, TouchFlg,
           MoveFlg, Clear, Fail, local_dir
  <2> QED BY <1>0, <2>2, <2>3 DEF TransferTypeOK
<1>e. /\ upload' \in [Version -> Dir] /\ updone' \subseteq Version
      /\ copy' \in [Host \ {HERE} -> [Version -> Dir]]
      /\ flag' \in [Host \ {HERE} -> SUBSET Version]
  <2>1. CASE UNCHANGED hosts
    BY <1>0, <2>1 DEF hosts, uploads, SupervisorTypeOK, TransferTypeOK
  <2>2. CASE \E h \in Host : Send(v, h)
    BY <1>0, <2>2, PutTypes DEF Send, Dir, SupervisorTypeOK, TransferTypeOK
  <2>3. CASE \E h \in Host : Sent(v, h) /\ Put(h, v, "whole")
    BY <1>0, <2>3, PutTypes DEF Dir, SupervisorTypeOK, TransferTypeOK
  <2>4. CASE \E h \in Host : SendFlg(v, h)
    BY <1>0, <2>4 DEF SendFlg, PutFlag, uploads, SupervisorTypeOK, TransferTypeOK
  <2>5. CASE MoveHere(v)
    <3>1. UNCHANGED <<upload, updone, flag>>
      BY <2>5 DEF MoveHere, uploads
    <3>2. copy' \in [Host \ {HERE} -> [Version -> Dir]]
      <4>1. CASE UNCHANGED copy
        BY <1>0, <4>1 DEF TransferTypeOK
      <4>2. CASE copy' = [h \in DOMAIN copy |->
                   IF h \in Local THEN [copy[h] EXCEPT ![v] = hdict[v]] ELSE copy[h]]
        <5>1. \A h \in Host \ {HERE} : [copy[h] EXCEPT ![v] = hdict[v]] \in [Version -> Dir]
          BY <1>0 DEF TransferTypeOK
        <5> QED BY <1>0, <4>2, <5>1 DEF TransferTypeOK
      <4> QED BY <2>5, <4>1, <4>2 DEF MoveHere
    <3> QED BY <1>0, <3>1, <3>2 DEF SupervisorTypeOK, TransferTypeOK
  <2>6. CASE MoveFlg(v)
    BY <1>0, <2>6 DEF MoveFlg, uploads, SupervisorTypeOK, TransferTypeOK
  <2>7. UNCHANGED hosts \/ (\E h \in Host : Send(v, h)) \/ (\E h \in Host : SendFlg(v, h))
        \/ (\E h \in Host : Sent(v, h) /\ Put(h, v, "whole")) \/ MoveHere(v) \/ MoveFlg(v)
    BY DEF Run, Begin, Wiped, Check, Lock, Make, Sent, TouchFlg, Clear, Fail
  <2> QED BY <2>1, <2>2, <2>3, <2>4, <2>5, <2>6, <2>7
<1>1. TransferTypeOK'
  BY <1>b, <1>c, <1>d, <1>e DEF TransferTypeOK
<1>2. SupervisorTypeOK'
  BY <1>0, <1>a, <1>e DEF SupervisorTypeOK, server_side, files, process, operator
<1> QED BY <1>a, <1>1, <1>2 DEF DeployTypeOK

\* To the supervisor, all that the transfer does is to upload.
LEMMA DeployStep ==
  DeployTypeOK /\ ScriptInv /\ [DeployNext]_transferVars
    => DeployTypeOK' /\ [SupervisorNext \/ Uploading]_supervisorVars
<1> SUFFICES ASSUME DeployTypeOK, ScriptInv, [DeployNext]_transferVars
             PROVE  DeployTypeOK' /\ [SupervisorNext \/ Uploading]_supervisorVars
  OBVIOUS
<1>1. CASE SupervisorNext /\ UNCHANGED transfer
  <2>1. SupervisorTypeOK'
    BY <1>1, SupervisorTypeNext DEF DeployTypeOK
  <2>2. TransferTypeOK'
    BY <1>1 DEF DeployTypeOK, TransferTypeOK, transfer, runs, local_dir
  <2> QED BY <1>1, <2>1, <2>2 DEF DeployTypeOK
<1>2. ASSUME NEW v \in Version, Run(v)
      PROVE  DeployTypeOK' /\ [SupervisorNext \/ Uploading]_supervisorVars
  <2>1. DeployTypeOK' /\ UNCHANGED server_side
    BY <1>2, RunTypeNext
  <2>2. Uploading
    BY <2>1 DEF Uploading, DeployTypeOK, SupervisorTypeOK, server_side
  <2> QED BY <2>1, <2>2
<1>3. CASE UNCHANGED transferVars
  <2>1. UNCHANGED <<supervisorVars, transfer>>
    BY <1>3 DEF transferVars, runs, local_dir, hosts, server_side, supervisorVars, transfer
  <2> QED BY <2>1 DEF DeployTypeOK, SupervisorTypeOK, TransferTypeOK, supervisorVars, transfer,
                      uploads, files, process, operator, runs, local_dir
<1> QED BY <1>1, <1>2, <1>3 DEF DeployNext

\* The types and what the script needs are an invariant of the composition.
LEMMA DeployScript == DeploySpec => [](DeployTypeOK /\ ScriptInv)
<1>1. DeployInit => DeployTypeOK /\ ScriptInv
  <2> SUFFICES ASSUME DeployInit PROVE DeployTypeOK /\ ScriptInv
    OBVIOUS
  <2>1. TransferTypeOK
    BY SupervisorAssumption, TransferAssumption
    DEF DeployInit, TransferInit, TransferTypeOK, Dir, NONE
  <2> QED BY <2>1, ScriptInit DEF DeployInit, DeployTypeOK
<1>2. DeployTypeOK /\ ScriptInv /\ [DeployNext]_transferVars => (DeployTypeOK /\ ScriptInv)'
  BY DeployStep, UploadsNext DEF DeployTypeOK
<1> QED BY <1>1, <1>2, PTL DEF DeploySpec

-----------------------------------------------------------------------------
(* Complete versions, when one run is under way at a time *)

\* A run that has not ended has none after it, so nothing newer is mounted.
LEMMA NothingNewer ==
  ASSUME DeployTypeOK, RunsInOrder, FlaggedOnce,
         NEW v \in Version, at[v] # "ended", NEW u \in done
  PROVE  u <= v
<1>1. u \in Version /\ Version \subseteq Int
  BY DEF DeployTypeOK, SupervisorTypeOK, Version
<1>2. ASSUME v < u PROVE FALSE
  <2>1. at[u] = "new"
    BY <1>1, <1>2 DEF RunsInOrder
  <2> QED BY <1>1, <2>1 DEF FlaggedOnce, Unflagged
<1> QED BY <1>1, <1>2

\* What Begin waits for, when one run may be under way.
LEMMA NoneRunning ==
  ASSUME MaxRunning = 1, Cardinality(Running) < MaxRunning
  PROVE  Running = {}
<1>1. IsFiniteSet(Running)
  <2>1. IsFiniteSet(1 .. Versions)
    BY SupervisorAssumption, FS_Interval
  <2>2. Running \in SUBSET (1 .. Versions)
    BY DEF Running, Version
  <2> QED BY <2>1, <2>2, FS_Subset
<1>2. Cardinality(Running) \in Nat
  BY <1>1, FS_CardinalityType
<1> QED BY <1>1, <1>2, FS_EmptySet

\* While a run makes a step all others are to come or have ended.
LEMMA OthersIdle ==
  ASSUME MaxRunning = 1, DeployTypeOK, RunsInOrder, NEW v \in Version, Run(v),
         NEW u \in Version, u # v
  PROVE  /\ at'[u] = at[u] /\ at[u] \in {"new", "ended"}
         /\ at[v] # "ended" /\ at'[v] # "new"
         /\ at[v] = "new" => \A w \in Version : w < v => at[w] = "ended"
<1>1. at \in [Version -> {"new", "wipe", "check", "lock", "make", "send", "sending", "sending_part",
                          "touch", "flag", "clear", "ended"}]
  BY DEF DeployTypeOK, TransferTypeOK
<1>2. /\ at'[u] = at[u] /\ at[v] # "ended" /\ at'[v] # "new"
      /\ at[v] = "new" => Begin(v)
  BY <1>1 DEF Run, Begin, Wiped, Check, Lock, Make, Send, Sent, SendFlg, MoveHere, TouchFlg, MoveFlg,
         Clear, Fail, Go, Exit
<1>3. u \in Int /\ v \in Int /\ Version \subseteq Int
  BY DEF Version
<1>4. CASE at[v] = "new"
  <2>1. Running = {}
    BY <1>2, <1>4, NoneRunning DEF Begin
  <2>2. \A w \in Version : at[w] \in {"new", "ended"}
    BY <2>1 DEF Running
  <2>3. \A w \in Version : w < v => at[w] # "new"
    BY <1>2, <1>4 DEF Begin, Version
  <2> QED BY <1>2, <2>2, <2>3
<1>5. CASE at[v] # "new"
  <2>1. CASE u < v
    BY <1>2, <1>5, <2>1 DEF RunsInOrder
  <2>2. CASE v < u
    BY <1>2, <1>5, <2>2 DEF RunsInOrder
  <2> QED BY <1>2, <1>3, <1>5, <2>1, <2>2
<1> QED BY <1>4, <1>5

\* What the script does to the directories.
LEMMA ScriptFiles ==
  ASSUME DeployTypeOK, ScriptInv, SupervisorNext
  PROVE  \/ UNCHANGED <<uploads, hdb, done>>
         \/ Move \/ Clean \/ DropFiles
BY DEF SupervisorNext, ScriptStep, StartScript, StopSeen, StopServer, End,
       InfoOk, InfoFails, Launch, Load, ServerAnswers, GiveUp, Scan, List, Touch, Relink,
       OpenOk, OpenFails, DropChoice, Dropped, Death, ScriptDies, ServerDies, OperatorStops,
       OperatorCleans, files

\* Runs stay in order.
LEMMA RunsInOrderNext ==
  ASSUME MaxRunning = 1, DeployTypeOK, RunsInOrder, NEW v \in Version, Run(v)
  PROVE  RunsInOrder'
<1> SUFFICES ASSUME NEW w \in Version, NEW u \in Version, w < u, at'[w] # "ended"
             PROVE  at'[u] = "new"
  BY DEF RunsInOrder
<1>0. w # u
  BY DEF Version
<1>1. CASE w = v
  <2>1. at[v] # "ended" /\ at'[u] = at[u]
    BY <1>0, <1>1, OthersIdle
  <2> QED BY <1>1, <2>1 DEF RunsInOrder
<1>2. CASE u = v
  <2>1. at[w] # "ended" /\ (at[v] = "new" => at[w] = "ended")
    BY <1>0, <1>2, OthersIdle
  <2> QED BY <1>2, <2>1 DEF RunsInOrder
<1>3. CASE w # v /\ u # v
  <2>1. at'[u] = at[u] /\ at'[w] = at[w]
    BY <1>3, OthersIdle
  <2> QED BY <2>1 DEF RunsInOrder
<1> QED BY <1>1, <1>2, <1>3

\* A run flags its version at HERE once, and a flag that the script has taken
\* does not come back.
LEMMA FlaggedOnceNext ==
  ASSUME DeployTypeOK, FlaggedOnce, NEW v \in Version, Run(v)
  PROVE  FlaggedOnce'
<1>0. /\ at \in [Version -> {"new", "wipe", "check", "lock", "make", "send", "sending", "sending_part",
                             "touch", "flag", "clear", "ended"}]
      /\ todo \in [Version -> SUBSET Host]
  BY DEF DeployTypeOK, TransferTypeOK
<1>1. done' = done
  BY RunTypeNext DEF server_side, files
<1>2. UNCHANGED updone \/ (updone' = updone \cup {v} /\ SendFlg(v, HERE))
  <2>1. CASE \E h \in Host : SendFlg(v, h)
    BY <2>1 DEF SendFlg, PutFlag, uploads
  <2>2. CASE ~ \E h \in Host : SendFlg(v, h)
    BY <2>2 DEF Run, Begin, Wiped, Check, Lock, Make, Send, Sent, MoveHere, TouchFlg, MoveFlg, Clear,
                Fail, Put, hosts, uploads
  <2> QED BY <2>1, <2>2
<1>3. \A u \in Version : Unflagged(u)' => Unflagged(u)
  <2>1. \A u \in Version : u # v => at'[u] = at[u] /\ todo'[u] = todo[u]
    BY <1>0 DEF Run, Begin, Wiped, Check, Lock, Make, Send, Sent, SendFlg, MoveHere, TouchFlg, MoveFlg,
                Clear, Fail, Go, Exit
  <2>2. Unflagged(v)' => Unflagged(v)
    <3>1. CASE at[v] = "flag"
      <4>1. at'[v] \in {"clear", "ended"} \/ (at'[v] = "flag" /\ todo'[v] \subseteq todo[v])
        BY <1>0, <3>1 DEF Run, Begin, Wiped, Check, Lock, Make, Send, Sent, SendFlg, MoveHere,
                          TouchFlg, MoveFlg, Clear, Fail, Go, Exit
      <4> QED BY <3>1, <4>1 DEF Unflagged
    <3>2. CASE at[v] \in {"clear", "ended"}
      <4>1. at'[v] \in {"clear", "ended"}
        BY <1>0, <3>2 DEF Run, Begin, Wiped, Check, Lock, Make, Send, Sent, SendFlg, MoveHere,
                          TouchFlg, MoveFlg, Clear, Fail, Go, Exit
      <4> QED BY <4>1 DEF Unflagged
    <3> QED BY <3>1, <3>2 DEF Unflagged
  <2> QED BY <2>1, <2>2 DEF Unflagged
<1>4. CASE UNCHANGED updone
  BY <1>1, <1>3, <1>4 DEF FlaggedOnce
<1>5. CASE updone' = updone \cup {v} /\ SendFlg(v, HERE)
  <2>1. Unflagged(v) /\ ~ Unflagged(v)'
    BY <1>0, <1>5 DEF SendFlg, Go, Unflagged
  <2>2. v \notin done
    BY <2>1 DEF FlaggedOnce
  <2> QED BY <1>1, <1>3, <1>5, <2>1, <2>2 DEF FlaggedOnce
<1> QED BY <1>2, <1>4, <1>5

\* What a run has sent stays complete while it goes on.
LEMMA SendsWholeNext ==
  ASSUME MaxRunning = 1, DeployTypeOK, RunsInOrder, SendsWhole, NEW v \in Version, Run(v)
  PROVE  SendsWhole'
<1> USE TransferAssumption
<1>0. /\ at \in [Version -> {"new", "wipe", "check", "lock", "make", "send", "sending", "sending_part",
                             "touch", "flag", "clear", "ended"}]
      /\ todo \in [Version -> SUBSET Host] /\ hdict \in [Version -> Dir]
      /\ copy \in [Host \ {HERE} -> [Version -> Dir]]
      /\ SupervisorTypeOK /\ TransferTypeOK
      /\ Remote \subseteq Host /\ Remote \cap Local = {} /\ HERE \in Remote
      /\ Local \subseteq Host \ {HERE}
      /\ {"none", "part", "whole"} = Dir
  BY DEF DeployTypeOK, TransferTypeOK, Remote, Dir
<1>a. hdb' = hdb
  BY RunTypeNext DEF server_side, files
<1> DEFINE Good(u) ==
      /\ todo[u] \subseteq Remote
      /\ at[u] # "sending_part"
      /\ at[u] \in {"send", "sending"} => hdict[u] = "whole"
      /\ at[u] \in {"send", "sending"} => \A h \in Remote \ todo[u] : CopyAt(h, u) = "whole"
      /\ at[u] = "touch" => \A h \in Remote : CopyAt(h, u) = "whole"
      /\ at[u] = "flag" => \A h \in Remote : CopyAt(h, u) = "whole" \/
                              (h = HERE /\ HERE \notin todo[u] /\ hdb[u] = "whole")
      /\ \A h \in Local : copy[h][u] \in {"none", "whole"}
<1>1. \A u \in Version : Good(u)
  BY DEF SendsWhole
<1>2. ASSUME NEW u \in Version, u # v PROVE Good(u)'
  <2>1. at'[u] \in {"new", "ended"}
    BY <1>2, OthersIdle
  <2>2. todo'[u] = todo[u]
    BY <1>0, <1>2 DEF Run, Begin, Wiped, Check, Lock, Make, Send, Sent, SendFlg, MoveHere, TouchFlg,
                      MoveFlg, Clear, Fail
  <2>3. \A h \in Local : copy'[h][u] = copy[h][u]
    <3>1. CASE \E g \in Host, d \in Dir : Put(g, v, d)
      <4>1. \A h \in Local : CopyAt(h, u)' = CopyAt(h, u)
        BY <1>0, <1>2, <3>1, PutTypes
      <4> QED BY <1>0, <4>1 DEF CopyAt
    <3>2. CASE MoveHere(v)
      BY <1>0, <1>2, <3>2 DEF MoveHere
    <3>3. CASE UNCHANGED copy
      BY <3>3
    <3>4. (\E g \in Host, d \in Dir : Put(g, v, d)) \/ MoveHere(v) \/ UNCHANGED copy
      BY <1>0 DEF Run, Begin, Wiped, Check, Lock, Make, Send, Sent, SendFlg, PutFlag, TouchFlg,
                  MoveFlg, Clear, Fail, hosts
    <3> QED BY <3>1, <3>2, <3>3, <3>4
  <2> QED BY <1>1, <2>1, <2>2, <2>3
<1>3. Good(v)'
  <2>0. /\ Good(v)
        /\ UNCHANGED hosts => \A h \in Host : CopyAt(h, v)' = CopyAt(h, v) /\ copy' = copy
    BY <1>1 DEF hosts, uploads, CopyAt
  <2>1. CASE Begin(v) \/ Wiped(v) \/ Check(v) \/ Lock(v) \/ Clear(v) \/ Fail(v)
    <3>1. at'[v] \in {"wipe", "check", "lock", "make", "ended"} /\ todo' = todo /\ copy' = copy
      BY <1>0, <2>1 DEF Begin, Wiped, Check, Lock, Clear, Fail, Go, Exit, hosts
    <3> QED BY <2>0, <3>1
  <2>2. CASE Make(v)
    <3>1. /\ at'[v] = "send" /\ todo'[v] = Remote /\ copy' = copy /\ hdict'[v] = "whole"
      BY <1>0, <2>2 DEF Make, Go, hosts
    <3> QED BY <2>0, <3>1
  <2>3. ASSUME NEW h \in Host, Send(v, h) PROVE Good(v)'
    <3>1. /\ at'[v] = "sending" /\ todo' = todo /\ hdict' = hdict /\ h \in todo[v]
          /\ at[v] = "send" /\ Put(h, v, "part")
      BY <1>0, <2>0, <2>3 DEF Send, Go, local_dir
    <3>2. \A g \in Host : g # h => CopyAt(g, v)' = CopyAt(g, v)
      BY <1>0, <3>1, PutTypes
    <3>3. \A g \in Local : copy'[g][v] = copy[g][v]
      <4>1. h \in Remote
        BY <2>0, <3>1
      <4>2. \A g \in Local : CopyAt(g, v)' = CopyAt(g, v)
        BY <1>0, <3>2, <4>1
      <4> QED BY <1>0, <4>2 DEF CopyAt
    <3> QED BY <1>0, <2>0, <3>1, <3>2, <3>3
  <2>4. ASSUME NEW h \in Host, Sent(v, h) PROVE Good(v)'
    <3>1. /\ at'[v] = "send" /\ todo'[v] = todo[v] \ {h} /\ hdict' = hdict /\ h \in todo[v]
          /\ at[v] = "sending" /\ Put(h, v, "whole")
      BY <1>0, <2>0, <2>4 DEF Sent, Go, local_dir
    <3>2. CopyAt(h, v)' = "whole" /\ \A g \in Host : g # h => CopyAt(g, v)' = CopyAt(g, v)
      BY <1>0, <3>1, PutTypes
    <3>3. \A g \in Local : copy'[g][v] = copy[g][v]
      <4>1. h \in Remote
        BY <2>0, <3>1
      <4>2. \A g \in Local : CopyAt(g, v)' = CopyAt(g, v)
        BY <1>0, <3>2, <4>1
      <4> QED BY <1>0, <4>2 DEF CopyAt
    <3> QED BY <1>0, <2>0, <3>1, <3>2, <3>3
  <2>5. ASSUME NEW h \in Host, SendFlg(v, h) PROVE Good(v)'
    <3>1. /\ at'[v] = "flag" /\ todo'[v] = todo[v] \ {h} /\ at[v] = "flag"
          /\ upload' = upload /\ copy' = copy
      BY <1>0, <2>5 DEF SendFlg, Go, PutFlag, uploads
    <3>2. \A g \in Host : CopyAt(g, v)' = CopyAt(g, v)
      BY <3>1 DEF CopyAt
    <3> QED BY <1>0, <1>a, <2>0, <3>1, <3>2
  <2>6. CASE MoveHere(v)
    <3>1. /\ at'[v] = "touch" /\ todo' = todo /\ at[v] = "send" /\ todo[v] = {}
          /\ upload' = upload
          /\ \A h \in Host \ {HERE} : h \notin Local => copy'[h][v] = copy[h][v]
          /\ \A h \in Local : copy'[h][v] \in {copy[h][v], hdict[v]}
      BY <1>0, <2>6 DEF MoveHere, Go, uploads
    <3>2. \A h \in Remote : CopyAt(h, v)' = CopyAt(h, v)
      BY <1>0, <3>1 DEF CopyAt
    <3> QED BY <1>0, <2>0, <3>1, <3>2
  <2>7. CASE TouchFlg(v)
    <3>1. /\ at'[v] = "flag" /\ todo'[v] = Remote /\ at[v] = "touch" /\ copy' = copy
          /\ UNCHANGED hosts
      BY <1>0, <2>7 DEF TouchFlg, Go, hosts
    <3> QED BY <1>0, <2>0, <3>1
  <2>8. CASE MoveFlg(v)
    <3>1. /\ at'[v] = "clear" /\ todo' = todo /\ copy' = copy
      BY <1>0, <2>8 DEF MoveFlg, Go, hosts
    <3> QED BY <2>0, <3>1
  <2> QED BY <2>1, <2>2, <2>3, <2>4, <2>5, <2>6, <2>7, <2>8 DEF Run
<1> QED BY <1>2, <1>3 DEF SendsWhole

\* The script does not touch what a run is sending: it takes flagged versions,
\* and cleans those that a newer one has come after.
LEMMA SendsWholeScript ==
  ASSUME DeployTypeOK, ScriptInv, WholeInv, SupervisorNext, UNCHANGED transfer
  PROVE  SendsWhole'
<1> USE TransferAssumption
<1>0. /\ UNCHANGED <<at, todo, hdict, copy>>
      /\ upload \in [Version -> Dir] /\ hdb \in [Version -> Dir] /\ dataids \subseteq Version
      /\ done \subseteq Version /\ choice \in Seq(Version) /\ Version \subseteq Int
      /\ RunsInOrder /\ FlaggedOnce /\ SendsWhole /\ ListedWhole
  BY DEF transfer, runs, local_dir, DeployTypeOK, SupervisorTypeOK, WholeInv, Version
<1>1. ASSUME NEW v \in Version, at[v] # "ended" PROVE ~ NewerWhole(v)
  BY <1>0, <1>1, NothingNewer DEF NewerWhole
<1>2. ASSUME NEW v \in Version, at[v] \in {"send", "sending", "touch", "flag"}
      PROVE  /\ upload'[v] = upload[v] \/ (v \in updone /\ upload[v] = "whole" /\ hdb'[v] = upload[v])
             /\ hdb'[v] = hdb[v] \/ (v \in updone /\ upload[v] = "whole" /\ hdb'[v] = upload[v])
  <2>1. CASE Move
    <3>1. dataids # {} /\ dataids \subseteq updone
      BY <1>0, <2>1 DEF Move, At, ListedWhole
    <3>2. Newest \in updone
      BY <1>0, <3>1, NewestIs
    <3>3. CASE v = Newest
      <4>1. upload[v] = "whole"
        BY <1>0, <1>1, <1>2, <3>2, <3>3 DEF ListedWhole
      <4> QED BY <1>0, <2>1, <3>2, <3>3, <4>1 DEF Move
    <3>4. CASE v # Newest
      BY <1>0, <2>1, <3>4 DEF Move
    <3> QED BY <3>3, <3>4
  <2>2. CASE Clean
    <3>1. NewerWhole(Newest)
      BY <1>0, <2>2, NewestIs DEF Clean, At, ListedWhole
    <3>2. v # Newest
      BY <1>1, <1>2, <3>1
    <3> QED BY <1>0, <2>2, <3>2 DEF Clean, files
  <2>3. CASE DropFiles
    <3>1. /\ dataids # {} /\ choice # <<>> /\ Chosen \in done
          /\ \A u \in dataids : u < Chosen
      BY <2>3 DEF DropFiles, At, ScriptInv
    <3>2. Newest < Chosen
      BY <1>0, <3>1, NewestIs
    <3>3. Chosen <= v
      BY <1>0, <1>2, <3>1, NothingNewer
    <3>4. v # Newest
      BY <1>0, <3>1, <3>2, <3>3
    <3> QED BY <1>0, <2>3, <3>4 DEF DropFiles, uploads
  <2>4. CASE UNCHANGED <<uploads, hdb, done>>
    BY <2>4 DEF uploads
  <2> QED BY <2>1, <2>2, <2>3, <2>4, ScriptFiles
<1>3. ASSUME NEW v \in Version, NEW h \in Remote
      PROVE  /\ at[v] \in {"send", "sending"} /\ h \notin todo[v] => CopyAt(h, v)' = "whole"
             /\ at[v] = "touch" => CopyAt(h, v)' = "whole"
             /\ at[v] = "flag" => CopyAt(h, v)' = "whole" \/
                                    (h = HERE /\ HERE \notin todo[v] /\ hdb'[v] = "whole")
  <2>1. CASE h # HERE
    <3>1. CopyAt(h, v)' = CopyAt(h, v)
      BY <1>0, <2>1 DEF CopyAt
    <3> QED BY <1>0, <2>1, <3>1 DEF SendsWhole
  <2>2. CASE h = HERE /\ at[v] \in {"send", "sending", "touch"}
    <3>1. v \notin updone
      BY <1>0, <2>2 DEF FlaggedOnce, Unflagged
    <3>2. CopyAt(h, v)' = CopyAt(h, v)
      BY <1>2, <2>2, <3>1 DEF CopyAt
    <3> QED BY <1>0, <2>2, <3>2 DEF SendsWhole
  <2>3. CASE h = HERE /\ at[v] = "flag"
    <3>1. upload[v] = "whole" \/ (HERE \notin todo[v] /\ hdb[v] = "whole")
      BY <1>0, <2>3 DEF SendsWhole, CopyAt
    <3>2. v \in updone => HERE \notin todo[v]
      BY <1>0, <2>3 DEF FlaggedOnce, Unflagged
    <3>3. upload'[v] = "whole" \/ (HERE \notin todo[v] /\ hdb'[v] = "whole")
      BY <1>2, <2>3, <3>1, <3>2
    <3> QED BY <2>3, <3>3 DEF CopyAt
  <2> QED BY <2>1, <2>2, <2>3
<1>4. ASSUME NEW v \in Version
      PROVE  /\ todo[v] \subseteq Remote /\ at[v] # "sending_part"
             /\ at[v] \in {"send", "sending"} => hdict[v] = "whole"
             /\ \A h \in Local : copy[h][v] \in {"none", "whole"}
  BY <1>0 DEF SendsWhole
<1> QED BY <1>0, <1>3, <1>4 DEF SendsWhole

\* What a run does keeps every listed version complete, or older than one that
\* is.
LEMMA ListedWholeRun ==
  ASSUME DeployTypeOK, WholeInv, NEW v \in Version, Run(v)
  PROVE  ListedWhole'
<1> USE TransferAssumption
<1>0. /\ UNCHANGED <<hdb, done, choice, sh, dataids>>
      /\ FlaggedOnce /\ SendsWhole /\ ListedWhole
      /\ SupervisorTypeOK /\ TransferTypeOK
      /\ {"none", "part", "whole"} = Dir /\ HERE \in Remote
  BY RunTypeNext DEF WholeInv, server_side, files, DeployTypeOK, Dir, Remote
<1>1. (\A u \in Version : NewerWhole(u)' = NewerWhole(u)) /\ Chosen' = Chosen
  BY <1>0 DEF NewerWhole, Chosen
<1>2. /\ updone \subseteq updone'
      /\ \A u \in updone : upload'[u] = upload[u]
      /\ \A u \in updone' \ updone : upload'[u] = "whole"
  <2>1. CASE \E h \in Host : SendFlg(v, h)
    <3>1. PICK h \in Host : SendFlg(v, h)
      BY <2>1
    <3>2. CASE h = HERE
      <4>1. updone' = updone \cup {v} /\ upload' = upload /\ at[v] = "flag" /\ HERE \in todo[v]
        BY <3>1, <3>2 DEF SendFlg, PutFlag, Go
      <4>2. upload[v] = "whole"
        BY <1>0, <4>1 DEF SendsWhole, CopyAt
      <4> QED BY <4>1, <4>2
    <3>3. CASE h # HERE
      BY <3>1, <3>3 DEF SendFlg, PutFlag, uploads
    <3> QED BY <3>2, <3>3
  <2>2. CASE \E h \in Host, d \in Dir : Put(h, v, d) /\ at[v] \in {"send", "sending"}
    <3>1. PICK h \in Host, d \in Dir : Put(h, v, d) /\ at[v] \in {"send", "sending"}
      BY <2>2
    <3>2. v \notin updone
      BY <1>0, <3>1 DEF FlaggedOnce, Unflagged
    <3>3. updone' = updone /\ \A u \in Version : u # v => CopyAt(HERE, u)' = CopyAt(HERE, u)
      BY <1>0, <3>1, PutTypes
    <3>4. \A u \in updone : u \in Version
      BY <1>0 DEF SupervisorTypeOK
    <3> QED BY <3>2, <3>3, <3>4 DEF CopyAt
  <2>3. CASE UNCHANGED uploads
    BY <2>3 DEF uploads
  <2>4. \/ \E h \in Host : SendFlg(v, h)
        \/ \E h \in Host, d \in Dir : Put(h, v, d) /\ at[v] \in {"send", "sending"}
        \/ UNCHANGED uploads
    <3>1. \A h \in Host : Send(v, h) => \E d \in Dir : Put(h, v, d) /\ at[v] \in {"send", "sending"}
      BY <1>0 DEF Send, Go
    <3>2. \A h \in Host : Sent(v, h) => UNCHANGED uploads \/
                            \E d \in Dir : Put(h, v, d) /\ at[v] \in {"send", "sending"}
      BY <1>0 DEF Sent, Go, hosts
    <3>3. Begin(v) \/ Wiped(v) \/ Check(v) \/ Lock(v) \/ Make(v) \/ MoveHere(v) \/ TouchFlg(v)
          \/ MoveFlg(v) \/ Clear(v) \/ Fail(v) => UNCHANGED uploads
      BY DEF Begin, Wiped, Check, Lock, Make, MoveHere, TouchFlg, MoveFlg, Clear, Fail, hosts
    <3> QED BY <3>1, <3>2, <3>3 DEF Run
  <2> QED BY <2>1, <2>2, <2>3, <2>4
<1>3. updone' \subseteq Version /\ done \subseteq Version /\ dataids \subseteq Version
  BY <1>0, RunTypeNext DEF DeployTypeOK, SupervisorTypeOK
<1>4. \A u \in updone' : upload'[u] = "whole" \/ NewerWhole(u)'
  BY <1>0, <1>1, <1>2, <1>3 DEF ListedWhole
<1> QED BY <1>0, <1>1, <1>2, <1>3, <1>4 DEF ListedWhole

\* So does what the script does, whatever dies.
LEMMA ListedWholeScript ==
  ASSUME DeployTypeOK, ScriptInv, FlaggedOnce, ListedWhole, SupervisorNext
  PROVE  ListedWhole' /\ updone' \cap done' = {} /\ updone' \subseteq updone
         /\ done' \subseteq done \cup updone
<1>0. /\ upload \in [Version -> Dir] /\ hdb \in [Version -> Dir] /\ dataids \subseteq Version
      /\ done \subseteq Version /\ updone \subseteq Version
      /\ choice \in Seq(Version) /\ Version \subseteq Int
      /\ Linear(choice) /\ updone \cap done = {}
      /\ choice # <<>> => Chosen \in Version /\ Chosen \in done
  BY ChosenIs DEF DeployTypeOK, SupervisorTypeOK, Version, ScriptInv, FlaggedOnce
<1>1. UNCHANGED choice => Chosen' = Chosen
  BY DEF Chosen
<1>2. dataids # {} => Newest \in dataids /\ Newest \in Version /\ \A v \in dataids : v <= Newest
  BY <1>0, NewestIs
<1>3. CASE Move
  <2>1. /\ dataids # {} /\ dataids \subseteq updone /\ UNCHANGED choice /\ sh' = "clean"
        /\ hdb' = [hdb EXCEPT ![Newest] = upload[Newest]]
        /\ upload' = [upload EXCEPT ![Newest] = "none"]
        /\ updone' = updone \ {Newest} /\ dataids' = dataids \ {Newest}
    BY <1>3 DEF Move, At, ListedWhole
  <2>2. Newest \in updone /\ Newest \notin done /\ Newest \in Version
    BY <1>0, <1>2, <2>1
  <2>3. done' = done \cup {Newest}
    BY <1>3, <2>2 DEF Move
  <2>4. ASSUME NEW v \in Version, NewerWhole(v) PROVE NewerWhole(v)'
    <3>1. PICK u \in done : u > v /\ hdb[u] = "whole"
      BY <2>4 DEF NewerWhole
    <3>2. u # Newest /\ u \in done' /\ hdb'[u] = hdb[u]
      BY <1>0, <2>1, <2>2, <2>3, <3>1
    <3> QED BY <3>1, <3>2 DEF NewerWhole
  <2>5. hdb'[Newest] = upload[Newest] /\ (hdb'[Newest] = "whole" \/ NewerWhole(Newest))
    BY <1>0, <2>1, <2>2 DEF ListedWhole
  <2>6. \A v \in updone' : upload'[v] = "whole" \/ NewerWhole(v)'
    BY <1>0, <2>1, <2>4 DEF ListedWhole
  <2>7. \A v \in done' : hdb'[v] = "whole" \/ NewerWhole(v)'
    <3>1. TAKE v \in done'
    <3>2. CASE v = Newest
      BY <2>2, <2>4, <2>5, <3>2
    <3>3. CASE v # Newest
      <4>1. v \in done /\ v \in Version /\ hdb'[v] = hdb[v]
        BY <1>0, <2>1, <2>3, <3>3
      <4> QED BY <2>4, <4>1 DEF ListedWhole
    <3> QED BY <3>2, <3>3
  <2>8. \A v \in dataids' : NewerWhole(v)'
    <3>1. TAKE v \in dataids'
    <3>2. v \in Version /\ v < Newest
      BY <1>0, <1>2, <2>1, <2>2
    <3>3. CASE hdb'[Newest] = "whole"
      BY <2>3, <3>2, <3>3 DEF NewerWhole
    <3>4. CASE NewerWhole(Newest)
      <4>1. PICK u \in done : u > Newest /\ hdb[u] = "whole"
        BY <3>4 DEF NewerWhole
      <4>2. u > v
        BY <1>0, <2>2, <3>2, <4>1
      <4>3. NewerWhole(v)
        BY <4>1, <4>2 DEF NewerWhole
      <4> QED BY <2>4, <3>2, <4>3
    <3> QED BY <2>5, <3>3, <3>4
  <2>9. choice' # <<>> => hdb'[Chosen'] = "whole"
    <3> HAVE choice' # <<>>
    <3>1. Chosen \in done /\ Chosen # Newest /\ hdb[Chosen] = "whole" /\ Chosen \in Version
      BY <1>0, <2>1, <2>2 DEF ListedWhole
    <3> QED BY <1>0, <1>1, <2>1, <3>1
  <2> QED BY <1>0, <2>1, <2>2, <2>3, <2>6, <2>7, <2>8, <2>9 DEF ListedWhole
<1>4. CASE Clean
  <2>1. /\ dataids # {} /\ UNCHANGED <<hdb, done, choice>> /\ sh = "clean" /\ sh' = "clean"
        /\ dataids' \subseteq dataids /\ updone' \subseteq updone
        /\ \A v \in Version : v # Newest => upload'[v] = upload[v]
    BY <1>0, <1>4 DEF Clean, At, files
  <2>2. \A v \in Version : NewerWhole(v)' = NewerWhole(v)
    BY <2>1 DEF NewerWhole
  <2>3. NewerWhole(Newest)
    BY <1>2, <2>1 DEF ListedWhole
  <2>4. \A v \in updone' : upload'[v] = "whole" \/ NewerWhole(v)'
    BY <1>0, <2>1, <2>2, <2>3 DEF ListedWhole
  <2>5. \A v \in done' : hdb'[v] = "whole" \/ NewerWhole(v)'
    BY <1>0, <2>1, <2>2 DEF ListedWhole
  <2>6. \A v \in dataids' : NewerWhole(v)'
    BY <1>0, <2>1, <2>2 DEF ListedWhole
  <2>7. choice' # <<>> => hdb'[Chosen'] = "whole"
    BY <1>1, <2>1 DEF ListedWhole
  <2> QED BY <1>0, <2>1, <2>4, <2>5, <2>6, <2>7 DEF ListedWhole
<1>5. CASE DropFiles
  <2>1. /\ dataids # {} /\ UNCHANGED <<upload, updone, choice>> /\ choice # <<>>
        /\ Chosen \in done /\ sh' \in {"rm", "drop"} /\ (\A v \in dataids : v < Chosen)
        /\ done \ {Newest} \subseteq done' /\ done' \subseteq done
        /\ \A v \in Version : v # Newest => hdb'[v] = hdb[v]
    BY <1>0, <1>5 DEF DropFiles, At, uploads, ScriptInv
  <2>2. Newest < Chosen /\ Newest \in Version /\ Chosen \in Version
    BY <1>0, <1>2, <2>1
  <2>3. Chosen \in done' /\ hdb'[Chosen] = "whole"
    BY <1>0, <2>1, <2>2 DEF ListedWhole
  <2>4. ASSUME NEW v \in Version, NewerWhole(v) PROVE NewerWhole(v)'
    <3>1. PICK u \in done : u > v /\ hdb[u] = "whole"
      BY <2>4 DEF NewerWhole
    <3>2. CASE u = Newest
      <4>1. Chosen > v
        BY <1>0, <2>2, <3>1, <3>2
      <4> QED BY <2>3, <4>1 DEF NewerWhole
    <3>3. CASE u # Newest
      <4>1. u \in done' /\ hdb'[u] = "whole"
        BY <1>0, <2>1, <3>1, <3>3
      <4> QED BY <3>1, <4>1 DEF NewerWhole
    <3> QED BY <3>2, <3>3
  <2>5. \A v \in updone' : upload'[v] = "whole" \/ NewerWhole(v)'
    BY <1>0, <2>1, <2>4 DEF ListedWhole
  <2>6. \A v \in done' : hdb'[v] = "whole" \/ NewerWhole(v)'
    <3>1. TAKE v \in done'
    <3>2. v \in done /\ v \in Version
      BY <1>0, <2>1
    <3>3. CASE v = Newest
      BY <2>2, <2>3, <3>3 DEF NewerWhole
    <3>4. CASE v # Newest
      BY <2>1, <2>4, <3>2, <3>4 DEF ListedWhole
    <3> QED BY <3>3, <3>4
  <2>7. choice' # <<>> => hdb'[Chosen'] = "whole"
    BY <1>1, <2>1, <2>3
  <2> QED BY <1>0, <2>1, <2>5, <2>6, <2>7 DEF ListedWhole
<1>6. CASE UNCHANGED <<uploads, hdb, done>>
  <2>1. UNCHANGED <<upload, updone, hdb, done>>
    BY <1>6 DEF uploads
  <2>2. \A v \in Version : NewerWhole(v)' = NewerWhole(v)
    BY <2>1 DEF NewerWhole
  <2>3. \A v \in updone' : upload'[v] = "whole" \/ NewerWhole(v)'
    BY <1>0, <2>1, <2>2 DEF ListedWhole
  <2>4. \A v \in done' : hdb'[v] = "whole" \/ NewerWhole(v)'
    BY <1>0, <2>1, <2>2 DEF ListedWhole
  <2>5. CASE Touch
    <3>1. /\ dataids = done /\ done # {} /\ choice' = Append(Without(Newest), Newest)
          /\ sh' = "link"
      BY <2>5 DEF Touch, At, ScriptInv
    <3>2. Newest \in done /\ Newest \in Version /\ \A u \in done : u <= Newest
      BY <1>2, <3>1
    <3>3. Chosen' = Newest
      BY <1>0, <3>1, <3>2, TouchedIsChosen
    <3>4. ~ NewerWhole(Newest)
      BY <1>0, <3>2 DEF NewerWhole
    <3>5. hdb[Newest] = "whole"
      BY <3>2, <3>4 DEF ListedWhole
    <3> QED BY <1>0, <2>1, <2>3, <2>4, <3>1, <3>3, <3>5 DEF ListedWhole
  <2>6. CASE DropChoice
    <3>1. /\ choice # <<>> /\ dataids # {} /\ (\A v \in dataids : v < Chosen)
          /\ choice' = Without(Newest) /\ sh' = "rm" /\ Chosen = Last(choice)
      BY <1>0, <2>6, ChosenIs DEF DropChoice, At, ScriptInv
    <3>2. Newest # Last(choice) /\ Newest \in Version
      BY <1>0, <1>2, <3>1
    <3>3. choice' # <<>> /\ Last(choice') = Last(choice)
      BY <1>0, <3>1, <3>2, WithoutRemoves
    <3>4. Chosen' = Chosen
      BY <3>1, <3>3 DEF Chosen
    <3> QED BY <1>0, <2>1, <2>3, <2>4, <3>1, <3>4 DEF ListedWhole
  <2>7. CASE Scan
    <3>1. dataids' = updone /\ UNCHANGED choice /\ sh' # "clean"
          /\ (sh' = "move" => updone # {})
      BY <2>7 DEF Scan, At, files
    <3> QED BY <1>0, <1>1, <2>1, <2>3, <2>4, <3>1 DEF ListedWhole
  <2>8. CASE UNCHANGED choice /\ sh' \notin {"move", "clean"}
    BY <1>0, <1>1, <2>1, <2>3, <2>4, <2>8 DEF ListedWhole
  <2>9. CASE UNCHANGED <<choice, sh, dataids>>
    <3>1. \A v \in dataids : NewerWhole(v)' = NewerWhole(v)
      BY <1>0, <2>2
    <3> QED BY <1>0, <1>1, <2>1, <2>3, <2>4, <2>9, <3>1 DEF ListedWhole
  <2>10. \/ Touch \/ DropChoice \/ Scan \/ Move \/ Clean
         \/ UNCHANGED choice /\ sh' \notin {"move", "clean"}
         \/ UNCHANGED <<choice, sh, dataids>>
    BY DEF SupervisorNext, ScriptStep, StartScript, StopSeen, StopServer, End,
       InfoOk, InfoFails, Launch, Load, ServerAnswers, GiveUp, List, Relink,
       OpenOk, OpenFails, DropFiles, Dropped, Death, ScriptDies, ServerDies, OperatorStops,
       OperatorCleans, files, At
  <2> QED BY <1>3, <1>4, <2>5, <2>6, <2>7, <2>8, <2>9, <2>10
<1> QED BY <1>3, <1>4, <1>5, <1>6, ScriptFiles

\* The initial state satisfies the invariant.
LEMMA WholeInit == DeployInit => WholeInv
<1> SUFFICES ASSUME DeployInit PROVE WholeInv
  OBVIOUS
<1> USE TransferAssumption DEF DeployInit, SupervisorInit, TransferInit
<1>1. RunsInOrder /\ FlaggedOnce
  BY DEF RunsInOrder, FlaggedOnce
<1>2. SendsWhole
  BY DEF SendsWhole
<1>3. ListedWhole
  BY DEF ListedWhole
<1> QED BY <1>1, <1>2, <1>3 DEF WholeInv

\* Every step keeps it.
LEMMA WholeNext ==
  ASSUME MaxRunning = 1
  PROVE  DeployTypeOK /\ ScriptInv /\ WholeInv /\ [DeployNext]_transferVars => WholeInv'
<1> SUFFICES ASSUME DeployTypeOK, ScriptInv, WholeInv, [DeployNext]_transferVars
             PROVE  WholeInv'
  OBVIOUS
<1>0. RunsInOrder /\ FlaggedOnce /\ SendsWhole /\ ListedWhole
  BY DEF WholeInv
<1>1. CASE SupervisorNext /\ UNCHANGED transfer
  <2>1. UNCHANGED <<at, todo>>
    BY <1>1 DEF transfer, runs
  <2>2. RunsInOrder'
    BY <1>0, <2>1 DEF RunsInOrder
  <2>3. SendsWhole'
    BY <1>1, SendsWholeScript
  <2>4. ListedWhole' /\ updone' \cap done' = {} /\ updone' \subseteq updone
        /\ done' \subseteq done \cup updone
    BY <1>0, <1>1, ListedWholeScript
  <2>5. FlaggedOnce'
    BY <1>0, <2>1, <2>4 DEF FlaggedOnce, Unflagged
  <2> QED BY <2>2, <2>3, <2>4, <2>5 DEF WholeInv
<1>2. ASSUME NEW v \in Version, Run(v) PROVE WholeInv'
  BY <1>0, <1>2, RunsInOrderNext, FlaggedOnceNext, SendsWholeNext, ListedWholeRun DEF WholeInv
<1>3. CASE UNCHANGED transferVars
  <2>1. UNCHANGED <<supervisorVars, transfer>>
    BY <1>3 DEF transferVars, runs, local_dir, hosts, server_side, supervisorVars, transfer
  <2>2. UNCHANGED <<upload, updone, hdb, done, choice, sh, dataids, at, todo, hdict, copy>>
    BY <2>1 DEF supervisorVars, transfer, uploads, files, runs, local_dir
  <2>3. RunsInOrder' /\ FlaggedOnce'
    BY <1>0, <2>2 DEF RunsInOrder, FlaggedOnce, Unflagged
  <2>4. SendsWhole'
    BY <1>0, <2>2 DEF SendsWhole, CopyAt
  <2>5. ListedWhole'
    BY <1>0, <2>2 DEF ListedWhole, NewerWhole, Chosen
  <2> QED BY <2>3, <2>4, <2>5 DEF WholeInv
<1> QED BY <1>1, <1>2, <1>3 DEF DeployNext

\* When one run is under way at a time, every flagged version is complete, or
\* older than one that is.
THEOREM WholeInvariant ==
  ASSUME MaxRunning = 1
  PROVE  DeploySpec => [](DeployTypeOK /\ ScriptInv /\ WholeInv)
<1>1. DeployInit => WholeInv
  BY WholeInit
<1>2. DeployTypeOK /\ ScriptInv /\ WholeInv /\ [DeployNext]_transferVars => WholeInv'
  BY WholeNext
<1> QED BY <1>1, <1>2, DeployScript, PTL DEF DeploySpec

\* Whenever script and server die, the next start finds a complete version to
\* choose, at least as new as the one that was served.
THEOREM RestartKeepsUpHolds ==
  ASSUME MaxRunning = 1
  PROVE  DeploySpec => []RestartKeepsUp
<1>1. DeployTypeOK /\ ScriptInv /\ WholeInv => RestartKeepsUp
  <2> SUFFICES ASSUME DeployTypeOK, ScriptInv, WholeInv, mounted # NONE
               PROVE  Chosen >= mounted /\ hdb[Chosen] = "whole" /\ Chosen \in done
    BY DEF RestartKeepsUp
  <2>1. choice \in Seq(Version) /\ mounted \in Version /\ Chosen >= mounted
    BY DEF DeployTypeOK, SupervisorTypeOK, ScriptInv
  <2>2. choice # <<>>
    BY <2>1, ChosenIs DEF Version, NONE
  <2> QED BY <2>1, <2>2 DEF ScriptInv, WholeInv, ListedWhole
<1> QED BY <1>1, WholeInvariant, PTL

\* The server opens complete versions only, as they are uploaded and from its
\* init file, whatever dies in between.
THEOREM OpensWholeHolds ==
  ASSUME MaxRunning = 1
  PROVE  DeploySpec => OpensWhole
<1>1. DeployTypeOK /\ ScriptInv /\ WholeInv /\ [DeployNext]_transferVars
        => [mounted' # mounted /\ mounted' # NONE => hdb[mounted'] = "whole"]_supervisorVars
  <2> SUFFICES ASSUME DeployTypeOK, ScriptInv, WholeInv, [DeployNext]_transferVars,
                      mounted' # mounted, mounted' # NONE
               PROVE  hdb[mounted'] = "whole"
    OBVIOUS
  <2>1. Load \/ OpenOk
    BY RunTypeNext DEF DeployNext, SupervisorNext, ScriptStep, StartScript, StopSeen, StopServer, End,
       InfoOk, InfoFails, Launch, ServerAnswers, GiveUp, Scan, Move, Clean, List, Touch, Relink,
       OpenFails, DropChoice, DropFiles, Dropped, Death, ScriptDies, ServerDies, OperatorStops,
       OperatorCleans, server_side, process, transferVars
  <2>2. mounted' = Chosen
    BY <2>1 DEF Load, OpenOk, At, ScriptInv
  <2>3. choice # <<>>
    BY <2>2 DEF Chosen
  <2> QED BY <2>2, <2>3 DEF WholeInv, ListedWhole
<1> QED BY <1>1, WholeInvariant, PTL DEF DeploySpec, OpensWhole

\* The part of README.md:173 that the code ensures with one run under way at a
\* time: no version is flagged before all the hosts that rsync sends to have it
\* complete, whatever the script of a host does with the versions meanwhile. A
\* host that mv serves (127.0.0.1) may be without.
THEOREM RemoteCopiedFirstHolds ==
  ASSUME MaxRunning = 1
  PROVE  DeploySpec => RemoteCopiedFirst
<1> DEFINE Copied ==
      \A h \in Host, v \in Version : v \in FlaggedAt(h)' \ FlaggedAt(h) =>
        CopyAt(h, v) = "whole" /\ \A r \in Remote : CompleteAt(r, v)
<1>1. DeployTypeOK /\ ScriptInv /\ WholeInv /\ [DeployNext]_transferVars => [Copied]_transferVars
  <2> SUFFICES ASSUME DeployTypeOK, ScriptInv, WholeInv, [DeployNext]_transferVars,
                      NEW h \in Host, NEW v \in Version, v \in FlaggedAt(h)' \ FlaggedAt(h)
               PROVE  CopyAt(h, v) = "whole" /\ \A r \in Remote : CompleteAt(r, v)
    OBVIOUS
  <2> USE TransferAssumption DEF CompleteAt
  <2>0. /\ RunsInOrder /\ FlaggedOnce /\ SendsWhole /\ ListedWhole
        /\ flag \in [Host \ {HERE} -> SUBSET Version] /\ HERE \in Remote
        /\ Local \subseteq Host \ {HERE}
    BY DEF WholeInv, DeployTypeOK, TransferTypeOK, Remote
  <2>1. ~ (SupervisorNext /\ UNCHANGED transfer)
    <3> SUFFICES ASSUME SupervisorNext, UNCHANGED transfer PROVE FALSE
      OBVIOUS
    <3>1. updone' \subseteq updone /\ flag' = flag
      BY <2>0, ListedWholeScript DEF transfer
    <3> QED BY <3>1 DEF FlaggedAt
  <2>2. ~ UNCHANGED transferVars
    BY DEF transferVars, hosts, uploads, FlaggedAt
  <2>3. PICK w \in Version : Run(w)
    BY <2>1, <2>2 DEF DeployNext
  <2>4. (\E g \in Host : SendFlg(w, g)) \/ MoveFlg(w)
    BY <2>3 DEF Run, Begin, Wiped, Check, Lock, Make, Send, Sent, MoveHere, TouchFlg, Clear,
                Fail, Put, hosts, uploads, FlaggedAt
  <2>5. CASE \E g \in Host : SendFlg(w, g)
    <3>1. PICK g \in Host : SendFlg(w, g)
      BY <2>5
    <3>2. g = h /\ w = v
      BY <2>0, <3>1 DEF SendFlg, PutFlag, FlaggedAt, uploads
    <3>3. at[v] = "flag" /\ h \in todo[v]
      BY <3>1, <3>2 DEF SendFlg, Go
    <3>4. h \in Remote
      BY <2>0, <3>3 DEF SendsWhole
    <3> QED BY <2>0, <3>3, <3>4 DEF SendsWhole
  <2>6. CASE MoveFlg(w)
    <3>1. /\ at[w] = "flag" /\ todo[w] = {} /\ UNCHANGED <<upload, updone>>
          /\ flag' = [g \in DOMAIN flag |->
               IF g \in Local /\ copy[g][w] # "none" THEN flag[g] \cup {w} ELSE flag[g]]
             \/ flag' = flag
      BY <2>6 DEF MoveFlg, Go, uploads
    <3>2. h # HERE /\ h \in Local /\ w = v /\ copy[h][v] # "none"
      BY <2>0, <3>1 DEF FlaggedAt
    <3>3. CopyAt(h, v) = "whole"
      BY <2>0, <3>2 DEF SendsWhole, CopyAt
    <3> QED BY <2>0, <3>1, <3>2, <3>3 DEF SendsWhole
  <2> QED BY <2>4, <2>5, <2>6
<1> QED BY <1>1, WholeInvariant, PTL DEF DeploySpec, RemoteCopiedFirst
=============================================================================
