------------------------------ MODULE LiveSettings ------------------------------
(* The server's settings (config.rs): app_settings in the database, and the     *)
(* copy in memory that everything reads. A save of the console (admin.rs) or of *)
(* a device (update_settings) is a statement that leaves alone what it is not   *)
(* given, and then the same for the copy. A start lays the table over the       *)
(* environment (overlay_saved_settings). Of what is handled alike there is one: *)
(* "jackett" is its address and its key, "tmdb" any key of the catalogue.       *)
EXTENDS Integers, FiniteSets

CONSTANTS
  Saves,        \* requests
  Console,      \* those of the console, or of a device that is an administrator
  Values,       \* keys and lists of languages
  MaxSaves,     \* bound: requests that are made
  MaxTroubles,  \* bound: errors, crashes and requests cut off
  None          \* a blank

SettingsAssumption ==
  Console \subseteq Saves /\ None \notin Values \cup BOOLEAN /\ Values # {}
  /\ MaxSaves \in Nat /\ MaxTroubles \in Nat

Switches == {"jackett_enabled", "opensubtitles_enabled"}
Keys == {"jackett", "opensubtitles", "wyzie", "tmdb"}
Fields == Switches \cup Keys \cup {"languages"}

\* What a row or a save says of some of the fields.
Given == UNION {[S -> Values \cup BOOLEAN \cup {None}] : S \in SUBSET Fields}
Fits(given) ==
  \A x \in DOMAIN given : IF x \in Switches THEN given[x] \in BOOLEAN
                          ELSE given[x] \in Values \cup {None}

VARIABLES
  environment,  \* what the environment says, which has no switches
  table,        \* the row of app_settings
  memory,       \* LiveSettings
  save,         \* save[s]: where a request is, what it writes and what it applies; history:
                \* which of its fields no other save was about to change meanwhile
  unsure,       \* history: fields whose last save was overtaken, cut off or blank
  saves, troubles

vars == <<environment, table, memory, save, unsure, saves, troubles>>

NotSaving == [pc |-> "idle", write |-> << >>, apply |-> << >>, alone |-> {}]

TypeOK ==
  /\ \A row \in {environment, table, memory} : row \in Given /\ DOMAIN row = Fields /\ Fits(row)
  /\ save \in [Saves -> [pc : {"idle", "write", "apply"}, write : Given, apply : Given,
                         alone : SUBSET Fields]]
  /\ \A s \in Saves : /\ DOMAIN save[s].write \subseteq DOMAIN save[s].apply
                      /\ Fits(save[s].write) /\ Fits(save[s].apply)
  /\ unsure \subseteq Fields /\ saves \in 0..MaxSaves /\ troubles \in 0..MaxTroubles

\* COALESCE: what is not given stays as it is.
With(settings, given) ==
  [x \in Fields |-> IF x \in DOMAIN given THEN given[x] ELSE settings[x]]

\* A start: an empty key of the catalogue leaves the one of the environment.
Overlay(row) == [row EXCEPT !["tmdb"] = IF @ = None THEN environment["tmdb"] ELSE @]

Unset == [x \in Fields |-> IF x \in Switches THEN FALSE ELSE None]

Init ==
  /\ \E key \in Values \cup {None} :
       environment = [Unset EXCEPT !["jackett"] = key, !["tmdb"] = key]
  /\ \E l \in Values : table = [Unset EXCEPT !["languages"] = l]
  /\ memory = Overlay(table) /\ save = [s \in Saves |-> NotSaving]
  /\ unsure = {} /\ saves = 0 /\ troubles = 0

--------------------------------------------------------------------------------
Trouble == troubles < MaxTroubles /\ troubles' = troubles + 1

Saving(x) == {s \in Saves : save[s].pc # "idle" /\ x \in DOMAIN save[s].apply}

\* A request begins: what it writes and what it applies is settled.
Begin(s, write, apply) ==
  /\ save[s].pc = "idle" /\ saves < MaxSaves /\ saves' = saves + 1
  /\ save' = [t \in Saves |->
       IF t = s THEN [pc |-> "write", write |-> write, apply |-> apply,
                      alone |-> {x \in DOMAIN apply : Saving(x) = {}}]
       ELSE [save[t] EXCEPT !.alone = @ \ DOMAIN apply]]
  /\ unsure' = unsure \cup {x \in DOMAIN apply : Saving(x) # {}}
  /\ UNCHANGED <<environment, table, memory, troubles>>

Both(s, given) == Begin(s, given, given)

\* save_jackett. The languages are always in its form, an address and a key may be.
HasJackett(typed) == typed \/ memory["jackett"] # None
JackettConfigured == memory["jackett_enabled"] /\ memory["jackett"] # None
Enabled(typed) == memory["jackett_enabled"] \/ (~JackettConfigured /\ HasJackett(typed))

SaveJackett(s) ==
  \E typed \in BOOLEAN, v, l \in Values :
    Both(s, [x \in {"jackett_enabled", "languages"} \cup (IF typed THEN {"jackett"} ELSE {}) |->
               IF x = "jackett_enabled" THEN Enabled(typed) ELSE IF x = "jackett" THEN v ELSE l])

\* toggle_jackett.
ToggleJackett(s) ==
  Both(s, [x \in {"jackett_enabled"} |-> ~memory["jackett_enabled"]])

SaveMetadataKeys(s) == \E v \in Values : Both(s, [x \in {"tmdb"} |-> v])

\* Mutant of SaveSubtitleKeys: that it is on is not written.
SaveKeysOnly(s) ==
  \E v \in Values :
    Begin(s, [x \in {"opensubtitles"} |-> v],
          [x \in {"opensubtitles", "opensubtitles_enabled"} |->
             IF x = "opensubtitles_enabled" THEN TRUE ELSE v])

\* A key of OpenSubtitles switches it on.
SaveSubtitleKeys(s) ==
  \E typed \in {{"wyzie"}, {"opensubtitles"}, {"opensubtitles", "wyzie"}}, v \in Values :
    Both(s,
         [x \in typed \cup (IF "opensubtitles" \in typed THEN {"opensubtitles_enabled"} ELSE {}) |->
            IF x = "opensubtitles_enabled" THEN TRUE ELSE v])

\* update_settings: a blank key of a subtitle provider is applied and not written; only an
\* administrator may set a key of the catalogue.
UpdateSettings(s) ==
  \E S \in (SUBSET {"wyzie", "opensubtitles", "opensubtitles_enabled", "tmdb"}) \ {{}},
     on \in BOOLEAN, v \in Values \cup {None} :
    LET given == [x \in S |-> IF x \in Switches THEN on ELSE v]
        unwritten == IF v = None THEN {"wyzie", "opensubtitles"} ELSE {}
    IN /\ Cardinality(S) <= 2 /\ ("opensubtitles_enabled" \notin S => on)
       /\ S = {"opensubtitles_enabled"} => v = None
       /\ "tmdb" \in S /\ v # None => s \in Console
       /\ Begin(s, [x \in S \ unwritten |-> given[x]], given)

UpdateLanguages(s) == \E l \in Values : Both(s, [x \in {"languages"} |-> l])

\* save_settings: one statement.
Write(s) ==
  /\ save[s].pc = "write"
  /\ table' = With(table, save[s].write) /\ save' = [save EXCEPT ![s].pc = "apply"]
  /\ UNCHANGED <<environment, memory, unsure, saves, troubles>>

Blank(s) == {x \in DOMAIN save[s].apply : save[s].apply[x] = None}

Apply(s) ==
  /\ save[s].pc = "apply"
  /\ memory' = With(memory, save[s].apply) /\ save' = [save EXCEPT ![s] = NotSaving]
  /\ unsure' = (unsure \ (DOMAIN save[s].write \cap save[s].alone)) \cup Blank(s)
  /\ UNCHANGED <<environment, table, saves, troubles>>

\* The statement fails, or the connection closes and the handler is dropped.
CutOff(s) ==
  /\ save[s].pc # "idle" /\ Trouble /\ save' = [save EXCEPT ![s] = NotSaving]
  /\ unsure' = IF save[s].pc = "apply" THEN unsure \cup DOMAIN save[s].apply ELSE unsure
  /\ UNCHANGED <<environment, table, memory, saves>>

Restart ==
  /\ Trouble /\ memory' = Overlay(table) /\ save' = [s \in Saves |-> NotSaving] /\ unsure' = {}
  /\ UNCHANGED <<environment, table, saves>>

ConsoleSaves(s) ==
  SaveJackett(s) \/ ToggleJackett(s) \/ SaveMetadataKeys(s) \/ SaveSubtitleKeys(s)

Next ==
  \/ Restart
  \/ \E s \in Console : ConsoleSaves(s)
  \/ \E s \in Saves : UpdateSettings(s) \/ UpdateLanguages(s) \/ Write(s) \/ Apply(s) \/ CutOff(s)

Spec == Init /\ [][Next]_vars

--------------------------------------------------------------------------------
\* What is in use is what a restart would bring back: no kind of save leaves out a field in the
\* table or in memory, and only saves of the same field that overlapped, a save that was cut off
\* and a key that was blanked leave the two different (save_settings, LiveSettings).
SavedIsUsed ==
  \A x \in Fields : Saving(x) = {} /\ x \notin unsure => memory[x] = Overlay(table)[x]
=============================================================================
