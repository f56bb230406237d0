--------------------------- MODULE TemplateInstall ---------------------------
(***************************************************************************)
(* install.sh: the template is applied to the repository of a project,     *)
(* again and again, as masters (salt) or without (salt-ssh), with or       *)
(* without Vault.  The script is a sequence of copies and substitutions    *)
(* under set -e: any command may fail (no network for a submodule, a full  *)
(* disk), and the repository is left as it is until the next apply.        *)
(***************************************************************************)
EXTENDS Naturals

CONSTANTS
    MaxApplies, \* bound on the runs of the script
    MaxEdits,   \* bound on the hand-written versions of CLAUDE.md
    HasNotes,   \* README.project.md and AGENTS.project.md exist
    None, Link

VARIABLES
    tree,       \* the areas of the repository that the template owns
    hasStates,  \* the repository has the directory salt/_states
    claude,     \* CLAUDE.md: None, the symlink, or a hand-written version
    backup,     \* CLAUDE.md.pre-template
    written,    \* history: hand-written versions so far
    run,        \* applies so far
    wants,      \* arguments and environment of this apply
    pc,         \* what the script does next
    outcome     \* how the last apply ended

vars == <<tree, hasStates, claude, backup, written, run, wants, pc, outcome>>

Variants == {"salt", "salt-ssh"}

(* "other": ARG2 is not empty and neither variant; nobody minds (10-13).     *)
(* "partial": the URL is set, the prefix or the role is not.                 *)
(* "nested": the prefix has a slash.                                         *)
Wants == [variant : Variants \cup {"other"},
          vault : {"off", "on", "partial", "nested"}]

(* salt and ssh are the files only one variant has (pillar/salt, runners),   *)
(* profile and macro those of a project with Vault.                          *)
Areas == {"files", "states", "pillar", "salt", "ssh", "ci", "docker",
          "profile", "macro", "readme", "agents"}

(* By which apply a file was written, for which variant its lines were       *)
(* chosen and its placeholders filled, what became of its #vault# lines, and *)
(* how often the project's notes stand in it.                                *)
Content == [by : 1..MaxApplies, variant : Variants \cup {"raw", "other"},
            vault : {"raw", "on", "off"}, notes : 0..1]

Outcomes == {"applied", "refused", "failed", "broken"}

ASSUME InstallAssumption ==
    /\ MaxApplies \in Nat /\ MaxEdits \in Nat
    /\ HasNotes \in BOOLEAN
    /\ None # Link /\ {None, Link} \cap Nat = {}
    /\ None \notin Content \cup Wants \cup Outcomes

Phases == {"idle", "files", "fill", "states", "pillar", "variant", "ci",
           "docker", "readme", "agents", "save", "link", "vault", "clean"}

(* Nothing is newer than the last apply, and a run has its arguments.        *)
TypeOK ==
    /\ tree \in [Areas -> Content \cup {None}]
    /\ hasStates \in BOOLEAN
    /\ written \in 0..MaxEdits
    /\ claude \in {None, Link} \cup 1..MaxEdits
    /\ backup \in {None, Link} \cup 1..MaxEdits
    /\ run \in 0..MaxApplies
    /\ wants \in Wants \cup {None}
    /\ pc \in Phases
    /\ outcome \in Outcomes \cup {None}
    /\ \A a \in Areas : tree[a] # None => tree[a].by <= run
    /\ pc # "idle" => wants # None /\ outcome = None

(* A repository to which the template was not applied yet.                   *)
Init ==
    /\ tree = [a \in Areas |-> None]
    /\ hasStates \in BOOLEAN
    /\ claude = None /\ backup = None /\ written = 0
    /\ run = 0 /\ wants = None
    /\ pc = "idle" /\ outcome = None

-----------------------------------------------------------------------------
(* Helpers *)

Known == wants.variant \in Variants

VaultWanted == wants.vault # "off"

Raw == [by |-> run, variant |-> "raw", vault |-> "raw", notes |-> 0]

(* sed_inplace_common, and sed_inplace_salt or sed_inplace_salt-ssh.         *)
Filled(content) == [content EXCEPT !.variant = wants.variant]

(* The #vault# lines are kept, or deleted, if they still are marked so.      *)
WithVault(content) ==
    IF content.vault # "raw" THEN content
    ELSE [content EXCEPT !.vault = IF VaultWanted THEN "on" ELSE "off"]

(* A file that is there is not copied again; cp -f.                          *)
CopiedOnce(a) == IF tree[a] = None THEN Raw ELSE tree[a]

Copied(a) == Raw

(* README.md and AGENTS.md, with the project's own notes at the end.         *)
Document(a) ==
    LET text == WithVault(Filled(Copied(a)))
    IN  IF HasNotes THEN [text EXCEPT !.notes = @ + 1] ELSE text

(* Only -e is asked; -e and not -L.                                          *)
Exists == claude # None

HandWritten == claude \notin {None, Link}

Step(from, to) == pc = from /\ pc' = to /\ UNCHANGED outcome

Exit(from, how) == pc = from /\ pc' = "idle" /\ outcome' = how

Others == <<hasStates, written, run, wants>>

-----------------------------------------------------------------------------
(* The script, in its order *)

(* The sanity checks passed; a run that fails them changes nothing.          *)
Apply(w) ==
    /\ pc = "idle"
    /\ run < MaxApplies
    /\ run' = run + 1
    /\ wants' = w
    /\ pc' = "files"
    /\ outcome' = None
    /\ UNCHANGED <<tree, hasStates, claude, backup, written>>

CopyFiles ==
    /\ Step("files", "fill")
    /\ tree' = [tree EXCEPT !["files"] = Raw]
    /\ UNCHANGED <<Others, claude, backup>>

(* The first sed_inplace_common is the first to look at the prefix.          *)
FillFiles ==
    /\ Step("fill", "states")
    /\ wants.vault # "nested"
    /\ tree' = [tree EXCEPT !["files"] = Filled(@)]
    /\ UNCHANGED <<Others, claude, backup>>

RefuseNested ==
    /\ Exit("fill", "refused")
    /\ wants.vault = "nested"
    /\ UNCHANGED <<Others, tree, claude, backup>>

(* Submodules, and py files of theirs.                                       *)
CopyStates ==
    /\ Step("states", "pillar")
    /\ hasStates
    /\ tree' = [tree EXCEPT !["states"] = Filled(Raw)]
    /\ UNCHANGED <<Others, claude, backup>>

(* cp into a directory that is not there.                                    *)
NoStates ==
    /\ Exit("states", "failed")
    /\ ~hasStates
    /\ UNCHANGED <<Others, tree, claude, backup>>

(* All of pillar, the files of both variants and the macro included.         *)
CopyPillar ==
    /\ Step("pillar", "variant")
    /\ tree' = [tree EXCEPT !["pillar"] = Filled(Raw), !["salt"] = Raw,
                            !["ssh"] = Raw, !["macro"] = Raw]
    /\ UNCHANGED <<Others, claude, backup>>

ChooseVariant ==
    /\ Step("variant", "ci")
    /\ tree' = CASE wants.variant = "salt" ->
                      [tree EXCEPT !["salt"] = Filled(@), !["ssh"] = None]
                 [] wants.variant = "salt-ssh" ->
                      [tree EXCEPT !["ssh"] = Filled(@), !["salt"] = None]
                 [] OTHER -> tree
    /\ UNCHANGED <<Others, claude, backup>>

CopyCi ==
    /\ Step("ci", "docker")
    /\ tree' = IF Known THEN [tree EXCEPT !["ci"] = Filled(Raw)] ELSE tree
    /\ UNCHANGED <<Others, claude, backup>>

(* The Dockerfile and etc; the Vault profile comes as it is.                 *)
CopyDocker ==
    /\ Step("docker", "readme")
    /\ tree' = [tree EXCEPT !["docker"] = Filled(Raw), !["profile"] = Raw]
    /\ UNCHANGED <<Others, claude, backup>>

WriteReadme ==
    /\ Step("readme", "agents")
    /\ tree' = [tree EXCEPT !["readme"] = Document("readme")]
    /\ UNCHANGED <<Others, claude, backup>>

WriteAgents ==
    /\ Step("agents", "save")
    /\ tree' = [tree EXCEPT !["agents"] = Document("agents")]
    /\ UNCHANGED <<Others, claude, backup>>

(* mv -f CLAUDE.md CLAUDE.md.pre-template                                    *)
SaveClaude ==
    /\ Step("save", "link")
    /\ IF HandWritten THEN backup' = claude /\ claude' = None
                      ELSE UNCHANGED <<claude, backup>>
    /\ UNCHANGED <<Others, tree>>

LinkClaude ==
    /\ Step("link", "vault")
    /\ claude' = Link
    /\ UNCHANGED <<Others, tree, backup>>

EnableVault ==
    /\ Step("vault", "clean")
    /\ wants.vault = "on"
    /\ tree["ci"] # None
    /\ tree' = [tree EXCEPT !["profile"] = WithVault(Filled(@)),
            !["macro"] = WithVault(Filled(@)),
            !["ci"] = WithVault(@),
            !["salt"] = IF wants.variant = "salt" THEN WithVault(@) ELSE @]
    /\ UNCHANGED <<Others, claude, backup>>

RefusePartial ==
    /\ Exit("vault", "refused")
    /\ wants.vault = "partial"
    /\ UNCHANGED <<Others, tree, claude, backup>>

StripVault ==
    /\ Step("vault", "clean")
    /\ ~VaultWanted
    /\ tree["ci"] # None
    /\ tree' = [tree EXCEPT !["profile"] = None, !["macro"] = None,
            !["ci"] = WithVault(@),
            !["salt"] = IF wants.variant = "salt" THEN WithVault(@) ELSE @]
    /\ UNCHANGED <<Others, claude, backup>>

(* sed of a .gitlab-ci.yml that no apply has written yet.                    *)
NoCi ==
    /\ Exit("vault", "failed")
    /\ wants.vault \in {"on", "off"}
    /\ tree["ci"] = None
    /\ UNCHANGED <<Others, tree, claude, backup>>

(* The submodules are updated, and leftovers of old templates removed.       *)
CleanUp ==
    /\ Exit("clean", "applied")
    /\ UNCHANGED <<Others, tree, claude, backup>>

(* A command fails, and set -e ends the script.                              *)
Breaks ==
    /\ pc # "idle"
    /\ pc' = "idle" /\ outcome' = "broken"
    /\ UNCHANGED <<Others, tree, claude, backup>>

(* Between two applies somebody writes a CLAUDE.md of his own.               *)
WriteClaude ==
    /\ pc = "idle"
    /\ written < MaxEdits
    /\ written' = written + 1
    /\ claude' = written + 1
    /\ UNCHANGED <<tree, hasStates, backup, run, wants, pc, outcome>>

-----------------------------------------------------------------------------
(* Specification *)

Script ==
    \/ CopyFiles \/ FillFiles \/ RefuseNested \/ CopyStates \/ NoStates
    \/ CopyPillar \/ ChooseVariant \/ CopyCi \/ CopyDocker
    \/ WriteReadme \/ WriteAgents \/ SaveClaude \/ LinkClaude
    \/ EnableVault \/ RefusePartial \/ StripVault \/ NoCi
    \/ CleanUp

(* The bounds are used up.                                                   *)
Over == pc = "idle" /\ run = MaxApplies /\ UNCHANGED vars

Next == (\E w \in Wants : Apply(w)) \/ Script \/ Breaks \/ WriteClaude \/ Over

Spec == Init /\ [][Next]_vars

-----------------------------------------------------------------------------
(* Properties *)

(* A file of this apply: for its variant, with nothing left to fill in.      *)
Current(content) ==
    content # None /\ content.by = run /\ content.variant = wants.variant

(* Its lines about Vault stand exactly when the project uses Vault.          *)
VaultLinesRight(content) ==
    content.vault = IF VaultWanted THEN "on" ELSE "off"

(* After an apply of either variant that came to its end the repository is   *)
(* what its arguments say, whatever earlier applies with other arguments     *)
(* left, at whichever command they stopped: every area is of this apply,     *)
(* nothing of the other variant, no Vault profile and no macro stays behind, *)
(* and the notes of the project stand once in README.md and AGENTS.md        *)
(* ("regenerated on every apply", install.sh:369 and 392).                   *)
AppliedIsComplete ==
    (outcome = "applied" /\ Known) =>
        /\ \A a \in {"files", "states", "pillar", "docker"} : Current(tree[a])
        /\ \A a \in {"ci", "readme", "agents"} :
              Current(tree[a]) /\ VaultLinesRight(tree[a])
        /\ \A a \in {"readme", "agents"} :
              tree[a].notes = IF HasNotes THEN 1 ELSE 0
        /\ IF wants.variant = "salt"
           THEN /\ Current(tree["salt"]) /\ VaultLinesRight(tree["salt"])
                /\ tree["ssh"] = None
           ELSE Current(tree["ssh"]) /\ tree["salt"] = None
        /\ \A a \in {"profile", "macro"} :
              IF VaultWanted THEN Current(tree[a]) ELSE tree[a] = None

(* What somebody last wrote in CLAUDE.md himself is in the repository, under *)
(* its name or as CLAUDE.md.pre-template, through any number of applies,     *)
(* finished or not (install.sh:413).                                         *)
HandWrittenKept == written > 0 => written \in {claude, backup}
=============================================================================
