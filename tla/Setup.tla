------------------------------- MODULE Setup -------------------------------
(***************************************************************************)
(* The interface "setup" (setup.c).  A setting is bound to a variable of   *)
(* VDR, belongs to a loaded plugin, or is only a line of setup.conf; such  *)
(* a line is replaced by saving the setup, loading the file into a second  *)
(* list, changing and saving that, and loading it back.  No step has a     *)
(* lock.                                                                   *)
(***************************************************************************)
EXTENDS MethodPool

CONSTANTS
  Bound,     \* settings bound to an integer variable of VDR
  Parsed,    \* settings of a loaded plugin
  Unknown,   \* other settings: of plugins that are not loaded, or of none
  Values     \* what a setting may be; "" for none

ASSUME SetupAssumption == Bound \intersect (Parsed \union Unknown) = {} /\ "" \notin Values /\ Values # {}

VARIABLES
  variable,  \* VDR's variables
  lines,     \* cSetup's list of lines, without those it writes itself on Save
  file,      \* setup.conf
  copy,      \* each thread's tmpSetup
  wanted,    \* what each setting was last set to
  unsaved,   \* variables that VDR changed since the last Save
  risky,     \* settings changed while a line was being replaced
  crossed    \* threads that replace a line and were not alone

setup == <<variable, lines, file>>
setupVars == <<setup, copy, wanted, unsaved, risky, crossed>>

Free == Parsed \union Unknown
Settings == Bound \union Free
Blank == [s \in Settings |-> ""]

\* Setup.Set gets <<setting, value>>; "invalid" is of the wrong type or range,
\* or nothing the plugin understands.  Setup.Del may name all settings of the
\* plugin ("all"), or be no setting at all.
SetupCalls ==
  [method : {"Setup.Set"}, arg : Settings \X (Values \union {"invalid"})] \union
  [method : {"Setup.Get"}, arg : Settings] \union
  [method : {"Setup.List"}, arg : {<<>>}] \union
  [method : {"Setup.Del"}, arg : Free \union {"all", "no setting"}]

\* cSetup::Save stores the variables among the lines, and writes these.
Written(vs, ls) == [s \in Settings |-> IF s \in Bound THEN vs[s] ELSE ls[s]]

AnyValue == CHOOSE v \in Values : TRUE

SetupInit ==
  /\ variable = [b \in Bound |-> AnyValue]
  /\ \E some \in {{}, Unknown} : lines = [s \in Free |-> IF s \in some THEN AnyValue ELSE ""]
  /\ file = Written(variable, lines)
  /\ copy = [w \in Workers |-> Blank]
  /\ wanted = file /\ unsaved = {} /\ risky = {} /\ crossed = {}

Replacing == {w \in Workers : call[w].at \in {"saved", "loaded", "stored"}}

\* These settings have got their values; a replacement under way may undo that,
\* and be undone.
Noted(w, changed) ==
  /\ risky' = IF Replacing \ {w} # {} \/ w \in crossed THEN risky \union changed ELSE risky \ changed
  /\ crossed' = (crossed \union Replacing) \ {w}

-----------------------------------------------------------------------------
(***************************************************************************)
(* Set.                                                                    *)
(***************************************************************************)

Name(w) == call[w].arg[1]
Value(w) == call[w].arg[2]

\* A bound setting: the variable is set, then the setup is saved.
SetBound(w) ==
  /\ Runs(w, "Setup.Set") /\ Name(w) \in Bound
  /\ IF Value(w) = "invalid"
     THEN SendReply(w, 501) /\ UNCHANGED setupVars
     ELSE /\ variable' = [variable EXCEPT ![Name(w)] = Value(w)]
          /\ wanted' = [wanted EXCEPT ![Name(w)] = Value(w)]
          /\ Go(w, "assigned") /\ Noted(w, {Name(w)})
          /\ unsaved' = unsaved \union {Name(w)}
          /\ UNCHANGED <<lines, file, copy>>
  /\ UNCHANGED holds

SaveBound(w) ==
  /\ At(w, "assigned")
  /\ file' = Written(variable, lines) /\ unsaved' = {}
  /\ SendReply(w, 900) /\ Noted(w, {})
  /\ UNCHANGED <<variable, lines, copy, wanted, holds>>

\* One of a loaded plugin, or one that is no line yet.
SetPluginOrNew(w) ==
  /\ Runs(w, "Setup.Set") /\ (Name(w) \in Parsed \/ (Name(w) \in Unknown /\ lines[Name(w)] = ""))
  /\ IF Value(w) = "invalid"
     THEN SendReply(w, 501) /\ UNCHANGED setupVars
     ELSE /\ lines' = [lines EXCEPT ![Name(w)] = Value(w)]
          /\ file' = Written(variable, lines') /\ unsaved' = {}
          /\ wanted' = [wanted EXCEPT ![Name(w)] = Value(w)]
          /\ SendReply(w, 900) /\ Noted(w, {Name(w)})
          /\ UNCHANGED <<variable, copy>>
  /\ UNCHANGED holds

\* A line is there: the setup is saved first (for the mutants: it is not) ...
NothingSaved == file
SavedFirst == Written(variable, lines)

ReplaceSaves(w) ==
  /\ Runs(w, "Setup.Set") /\ Name(w) \in Unknown /\ lines[Name(w)] # ""
  /\ IF Value(w) = "invalid"
     THEN SendReply(w, 501) /\ UNCHANGED <<file, unsaved, crossed>>
     ELSE /\ file' = SavedFirst /\ unsaved' = {} /\ Go(w, "saved")
          /\ crossed' = IF Replacing = {} THEN crossed ELSE crossed \union Replacing \union {w}
  /\ UNCHANGED <<variable, lines, copy, wanted, risky, holds>>

\* ... loaded again, changed and saved, unless the line has gone meanwhile ...
ReplaceLoads(w) ==
  /\ At(w, "saved")
  /\ copy' = [copy EXCEPT ![w] = file]
  /\ IF file[Name(w)] = "" THEN SendReply(w, 900) /\ Noted(w, {})
                           ELSE Go(w, "loaded") /\ UNCHANGED <<risky, crossed>>
  /\ UNCHANGED <<setup, wanted, unsaved, holds>>

ReplaceStores(w) ==
  /\ At(w, "loaded")
  /\ file' = [copy[w] EXCEPT ![Name(w)] = Value(w)]
  /\ copy' = [copy EXCEPT ![w] = Blank]
  /\ Go(w, "stored")
  /\ UNCHANGED <<variable, lines, wanted, unsaved, risky, crossed, holds>>

\* ... and loaded into VDR's own list and variables.
ReplaceReloads(w) ==
  /\ At(w, "stored")
  /\ lines' = [s \in Free |-> file[s]] /\ variable' = [b \in Bound |-> file[b]] /\ unsaved' = {}
  /\ wanted' = [wanted EXCEPT ![Name(w)] = Value(w)]
  /\ SendReply(w, 900) /\ Noted(w, {Name(w)})
  /\ UNCHANGED <<file, copy, holds>>

-----------------------------------------------------------------------------
(***************************************************************************)
(* Del, Get and List.                                                      *)
(***************************************************************************)

\* The settings to delete, and those that go; a variable would be stored again.
Del(w) ==
  /\ Runs(w, "Setup.Del")
  /\ LET name == call[w].arg
         gone == IF name = "all" THEN Parsed ELSE {name} \ {"no setting"}
     IN IF name = "no setting" THEN SendReply(w, 501) /\ UNCHANGED setupVars
        ELSE IF name # "all" /\ lines[name] = "" THEN SendReply(w, 550) /\ UNCHANGED setupVars
        ELSE /\ lines' = [s \in Free |-> IF s \in gone THEN "" ELSE lines[s]]
             /\ file' = Written(variable, lines') /\ unsaved' = {}
             /\ wanted' = [s \in Settings |-> IF s \in gone THEN "" ELSE wanted[s]]
             /\ Noted(w, gone)
             /\ SendReply(w, 900) /\ UNCHANGED <<variable, copy>>
  /\ UNCHANGED holds

Known(s) == IF s \in Bound THEN variable[s] ELSE lines[s]

Get(w) ==
  /\ Runs(w, "Setup.Get")
  /\ Return(w, IF Known(call[w].arg) = "" THEN 501 ELSE 900, Known(call[w].arg))
  /\ UNCHANGED <<setupVars, holds>>

\* The variables, and the lines that are no variable's.
List(w) ==
  /\ Runs(w, "Setup.List")
  /\ Return(w, 0, [s \in {t \in Settings : Known(t) # ""} |-> Known(s)])
  /\ UNCHANGED <<setupVars, holds>>

SetupMethod(w) ==
  \/ SetBound(w) \/ SaveBound(w) \/ SetPluginOrNew(w)
  \/ ReplaceSaves(w) \/ ReplaceLoads(w) \/ ReplaceStores(w) \/ ReplaceReloads(w)
  \/ Del(w) \/ Get(w) \/ List(w)

\* VDR changes a variable, and saves it later.
VdrSets(b, v) ==
  /\ variable[b] # v /\ variable' = [variable EXCEPT ![b] = v]
  /\ wanted' = [wanted EXCEPT ![b] = v] /\ unsaved' = unsaved \union {b}
  /\ risky' = IF Replacing # {} THEN risky \union {b} ELSE risky \ {b}
  /\ UNCHANGED <<lines, file, copy, crossed, poolVars>>

\* A setting has the value it was set to last, in memory and - once saved - in
\* setup.conf, whatever is set, replaced, deleted and loaded besides.  Left out:
\* what is changed while a line is being replaced, which the replacement may
\* undo without a word (setup.c:431-442 has no lock), and a line that is stored
\* and not yet loaded back.
SetupSaved ==
  \A s \in Settings \ (risky \union {Name(w) : w \in {v \in Workers : At(v, "stored")}}) :
    /\ Known(s) = wanted[s]
    /\ s \notin unsaved => file[s] = wanted[s]
=============================================================================
