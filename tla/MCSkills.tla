------------------------------ MODULE MCSkills ------------------------------
(* Two skills, one of which replaces an old one; two agents' folders, the   *)
(* second linked to the first, and a repository's, one of whose skills is a *)
(* link out of it.                                                          *)
EXTENDS Skills

MCSkills == <<"cli", "stream">>
MCReplaces == [s \in {"cli", "stream"} |-> IF s = "stream" THEN <<"first">> ELSE <<>>]
MCHome == <<"claude", "codex">>
MCRepo == <<"repo">>
MCFile == {"cli", "stream", "first", "repo", "elsewhere"}
MCOutside == MCFile \ {"repo"}
MCLinks ==
    {[q \in Path |-> IF q[1] # "repo" THEN q[2] ELSE IF q[2] = "cli" THEN "repo" ELSE to] :
        to \in {"elsewhere", "stream"}}

MCInitial ==
    {[f \in MCFile |-> IF f \in here THEN "shipped" ELSE "absent"] :
        here \in {{"stream", "first", "repo", "elsewhere"}, {"cli", "first", "repo", "elsewhere"}}}
Symmetry == Permutations(Run)

Install(skills, root) == [kind |-> "install", skills |-> skills, root |-> root,
                          dir |-> FALSE, force |-> FALSE, dry |-> FALSE]
Update == [Install(MCSkills, "claude") EXCEPT !.kind = "update"]
MCJobs ==
    {Install(MCSkills, "claude"), Install(MCSkills, "repo"), Install(<<"stream">>, "codex"),
     [Install(<<"stream">>, "claude") EXCEPT !.force = TRUE],
     [Install(<<"stream">>, "claude") EXCEPT !.dir = TRUE],
     [Install(MCSkills, "claude") EXCEPT !.dry = TRUE],
     Update, [Update EXCEPT !.force = TRUE]}
=============================================================================
