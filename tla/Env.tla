-------------------------------- MODULE Env --------------------------------
(***************************************************************************)
(* The shell's environment (env.c) over its strings (string.c).  The list  *)
(* of variables is a sequence, the newest first; a name is a sequence of   *)
(* characters.  torgo_main looks variables up in an environment that stays *)
(* empty: the calls that change it are compiled out of the shell, and are  *)
(* modelled as env.c offers them.                                          *)
(***************************************************************************)
EXTENDS Integers, Sequences, FiniteSets

CONSTANTS VarNames,   \* names of variables
          VarValues,
          NoValue,    \* lookupVarEnv's NULL
          MaxVars     \* bound: the length of the list

EnvAssumption == /\ \A n \in VarNames : n \in Seq(STRING)
                 /\ NoValue \notin VarValues /\ MaxVars \in Nat

VARIABLES envList,  \* Env.vars
          meant,    \* the value every name should have
          doing     \* "idle", "looping" in updateVarEnv, or "null": the shell died

envVars == <<envList, meant, doing>>

(* matchString() has stepped past a character when it finds that it differs. *)
matchString(a, b) ==
  Len(a) = Len(b) /\ \A i \in 1..(Len(a) - 1) : a[i] = b[i]

matches(name) == {i \in DOMAIN envList : matchString(envList[i].name, name)}

lookupVarEnv(name) ==
  IF matches(name) = {} THEN NoValue
  ELSE envList[CHOOSE i \in matches(name) : \A j \in matches(name) : i <= j].value

mkEnv == envList = <<>>

EnvInit == mkEnv /\ meant = [n \in VarNames |-> NoValue] /\ doing = "idle"

pushed(name, value) == envList' = <<[name |-> name, value |-> value]>> \o envList

addVarEnv(name, value) ==
  /\ Len(envList) < MaxVars
  /\ pushed(name, value)
  /\ meant' = [meant EXCEPT ![name] = value] /\ UNCHANGED doing

(* updateVarEnv() looks at the first variable only, again and again when it is
   another one. *)
updateVarEnv(name, value) ==
  /\ Len(envList) < MaxVars
  /\ \/ envList = <<>> /\ pushed(name, value) /\ UNCHANGED doing
     \/ /\ envList # <<>> /\ matchString(envList[1].name, name)
        /\ envList' = [envList EXCEPT ![1].value = value] /\ UNCHANGED doing
     \/ /\ envList # <<>> /\ ~ matchString(envList[1].name, name)
        /\ doing' = "looping" /\ UNCHANGED envList
  /\ meant' = [meant EXCEPT ![name] = value]

(* unsetVarEnv() unlinks every variable after the first, named so or not, and
   then takes what follows the first for the list; the list must not be empty. *)
unsetVarEnv(name) ==
  /\ envList' = <<>>
  /\ doing' = IF envList = <<>> THEN "null" ELSE doing
  /\ meant' = [meant EXCEPT ![name] = NoValue]

EnvNext == /\ doing = "idle"
           /\ \/ \E n \in VarNames, v \in VarValues : addVarEnv(n, v)
              \/ \E n \in VarNames, v \in VarValues : updateVarEnv(n, v)
              \/ \E n \in VarNames : unsetVarEnv(n)

EnvSpec == EnvInit /\ [][EnvNext]_envVars

-----------------------------------------------------------------------------
(* lookupVarEnv finds a variable only when one of that name is there, "otherwise
   NULL", as matchString "compare[s] the strings for equality". *)
FoundByName == doing = "idle" =>
  \A n \in VarNames : lookupVarEnv(n) # NoValue => \E i \in DOMAIN envList : envList[i].name = n

(* Unsetting a name leaves the others as they were ("Remove 'name' from vars"). *)
UnsetKeepsOthers == doing = "idle" =>
  \A n \in VarNames : meant[n] # NoValue => lookupVarEnv(n) = meant[n]

(* updateVarEnv returns ("Lookup 'name' in 'env' and replace it"). *)
UpdateReturns == doing # "looping"

-----------------------------------------------------------------------------
(* Two names of one letter. *)
OneLetterNames == {<<"a">>, <<"b">>}
=============================================================================
