----------------------------- MODULE MCQuestions -----------------------------
(* Two agents with folders of their own.  Three commands that are not logins, *)
(* two logins, which share the lists of the config, or a login and another    *)
(* command, which share the hint's cache.                                     *)
EXTENDS Questions, TLC

CONSTANTS claude, codex, claudeSkills, codexSkills

Agents == {claude, codex}
Folders == (claude :> claudeSkills) @@ (codex :> codexSkills)
Symmetry == Permutations(Cmd)

Logins == {c \in Cmd : agent[c] # NoAgent}
Run == {c \in Cmd : pc[c] = "idle"}

FirstInit ==
    /\ Init
    /\ Logins \subseteq Run
    /\ \/ Logins = {} /\ Run = Cmd /\ day = 0
       \/ Logins = Run /\ Cardinality(Run) = 2 /\ day = MaxDay /\ cache = day
       \/ Cardinality(Logins) = 1 /\ Cardinality(Run) = 2 /\ cache = Never
FirstSpec == FirstInit /\ [][Next]_vars
=============================================================================
