------------------------- MODULE TemplateInstallProofs -------------------------
(***************************************************************************)
(* An apply of the template that came to its end leaves what its arguments *)
(* say, and nothing hand-written is lost: for any number of applies, any   *)
(* of which may stop at any command.                                       *)
(***************************************************************************)
EXTENDS TemplateInstall, TLAPS

(* The script has got this far, or came to its end.                          *)
Past(phases) == pc \in phases \/ (pc = "idle" /\ outcome = "applied")

SinceClean   == {"clean"}
SinceSave    == {"save", "link", "vault"} \cup SinceClean
SinceAgents  == {"agents"} \cup SinceSave
SinceReadme  == {"readme"} \cup SinceAgents
SinceDocker  == {"docker"} \cup SinceReadme
SinceCi      == {"ci"} \cup SinceDocker
SinceVariant == {"variant"} \cup SinceCi
SincePillar  == {"pillar"} \cup SinceVariant
SinceStates  == {"states"} \cup SincePillar

(* A document is finished in one section.                                    *)
Finished(a) ==
    /\ Current(tree[a]) /\ VaultLinesRight(tree[a])
    /\ tree[a].notes = IF HasNotes THEN 1 ELSE 0

(* The files of the variant are there, those of the other are not.           *)
OfVariant ==
    /\ wants.variant = "salt" => Current(tree["salt"]) /\ tree["ssh"] = None
    /\ wants.variant = "salt-ssh" => Current(tree["ssh"]) /\ tree["salt"] = None

(* What each section of the script has left behind it.                       *)
CopiesDone ==
    /\ pc = "fill" => tree["files"] = Raw
    /\ Past(SinceStates) => Current(tree["files"])
    /\ Past(SincePillar) => Current(tree["states"])
    /\ Past(SinceVariant) => Current(tree["pillar"])
    /\ pc = "variant" => tree["salt"] = Raw /\ tree["ssh"] = Raw
    /\ Past(SinceCi) => OfVariant
    /\ Past(SinceDocker) => (Known => Current(tree["ci"]))
    /\ Past(SinceReadme) => Current(tree["docker"])

DocumentsDone ==
    /\ Past(SinceAgents) => Finished("readme")
    /\ Past(SinceSave) => Finished("agents")

VaultDone ==
    /\ pc \in SinceReadme \ SinceClean => tree["profile"] = Raw
    /\ pc \in SinceVariant \ SinceClean => tree["macro"] = Raw
    /\ pc \in SinceDocker \ SinceClean => (Known => tree["ci"].vault = "raw")
    /\ pc \in SinceVariant \ SinceClean =>
          (wants.variant = "salt" => tree["salt"].vault = "raw")
    /\ Past(SinceClean) =>
          /\ Known => VaultLinesRight(tree["ci"])
          /\ wants.variant = "salt" => VaultLinesRight(tree["salt"])
          /\ \A a \in {"profile", "macro"} :
                IF VaultWanted THEN Current(tree[a]) ELSE tree[a] = None

Begun ==
    /\ pc # "idle" => run \in 1..MaxApplies
    /\ outcome = "applied" => pc = "idle" /\ wants # None

InstallInv == TypeOK /\ Begun /\ CopiesDone /\ DocumentsDone /\ VaultDone

(* Where the script is counts in all that follows.                           *)
USE DEF Past, SinceClean, SinceSave, SinceAgents, SinceReadme, SinceDocker,
        SinceCi, SinceVariant, SincePillar, SinceStates

LEMMA InitInstallInv == Init => InstallInv
<1> SUFFICES ASSUME Init PROVE InstallInv
  OBVIOUS
<1> USE InstallAssumption DEF Init
<1>1. TypeOK
  BY DEF TypeOK, Phases
<1>2. Begun
  BY DEF Begun, Outcomes
<1>3. CopiesDone /\ DocumentsDone /\ VaultDone
  BY DEF CopiesDone, DocumentsDone, VaultDone, Outcomes
<1> QED BY <1>1, <1>2, <1>3 DEF InstallInv

(* What the sections write are contents of this apply.                       *)
LEMMA Contents ==
  ASSUME run \in 1..MaxApplies, wants \in Wants
  PROVE  /\ Raw \in Content /\ Raw.by = run /\ Raw.vault = "raw"
         /\ \A c \in Content :
              /\ Filled(c) \in Content
              /\ Filled(c).by = c.by /\ Filled(c).variant = wants.variant
              /\ Filled(c).vault = c.vault /\ Filled(c).notes = c.notes
              /\ WithVault(c) \in Content
              /\ WithVault(c).by = c.by /\ WithVault(c).variant = c.variant
              /\ c.vault = "raw" =>
                    WithVault(c).vault = IF VaultWanted THEN "on" ELSE "off"
              /\ WithVault(c).notes = c.notes
<1>1. Raw \in Content /\ Raw.by = run /\ Raw.vault = "raw"
  BY DEF Raw, Content
<1>2. ASSUME NEW c \in Content
      PROVE  /\ Filled(c) \in Content
             /\ Filled(c).by = c.by /\ Filled(c).variant = wants.variant
             /\ Filled(c).vault = c.vault /\ Filled(c).notes = c.notes
  BY DEF Content, Filled, Wants, Variants
<1>3. ASSUME NEW c \in Content
      PROVE  /\ WithVault(c) \in Content
             /\ WithVault(c).by = c.by /\ WithVault(c).variant = c.variant
             /\ c.vault = "raw" =>
                   WithVault(c).vault = IF VaultWanted THEN "on" ELSE "off"
             /\ WithVault(c).notes = c.notes
  BY DEF Content, WithVault
<1> QED BY <1>1, <1>2, <1>3

LEMMA Documents ==
  ASSUME run \in 1..MaxApplies, wants \in Wants, NEW a \in Areas
  PROVE  /\ Document(a) \in Content
         /\ Document(a).by = run /\ Document(a).variant = wants.variant
         /\ Document(a).vault = IF VaultWanted THEN "on" ELSE "off"
         /\ Document(a).notes = IF HasNotes THEN 1 ELSE 0
<1> DEFINE text == WithVault(Filled(Raw))
<1>1. /\ text \in Content /\ text.by = run /\ text.variant = wants.variant
      /\ text.vault = (IF VaultWanted THEN "on" ELSE "off")
      /\ text.notes = 0
  BY Contents DEF Raw
<1>2. Document(a) = IF HasNotes THEN [text EXCEPT !.notes = @ + 1] ELSE text
  BY DEF Document, Copied
<1> HIDE DEF text
<1> QED BY <1>1, <1>2 DEF Content

(* A section leaves contents of this apply, or what was there.               *)
LEMMA WrittenTypes ==
  ASSUME TypeOK, Begun, pc # "idle", UNCHANGED Others,
         tree' \in [Areas -> Content \cup {None}],
         \A a \in Areas :
             tree'[a] \in {None, tree[a]} \/ tree'[a].by = run,
         {claude', backup'} \subseteq {None, Link, claude, backup},
         pc' \in Phases, outcome' \in Outcomes \cup {None},
         pc' # "idle" => outcome' = None
  PROVE  TypeOK'
<1>1. run \in Nat
  BY DEF TypeOK
<1>2. (\A a \in Areas : tree[a] # None => tree[a].by <= run)'
  <2> SUFFICES ASSUME NEW a \in Areas, tree'[a] # None
               PROVE  tree'[a].by <= run
    BY DEF Others
  <2>1. CASE tree'[a] = tree[a]
    BY <2>1 DEF TypeOK
  <2>2. CASE tree'[a].by = run
    BY <2>2, <1>1
  <2> QED BY <2>1, <2>2
<1> QED BY <1>2 DEF TypeOK, Others

(* An apply under way has its arguments and no outcome.                      *)
LEMMA AtWork ==
  ASSUME InstallInv, pc # "idle"
  PROVE  /\ run \in 1..MaxApplies /\ wants \in Wants /\ wants # None
         /\ outcome = None /\ outcome # "applied"
  BY InstallAssumption DEF InstallInv, TypeOK, Begun, Outcomes

-----------------------------------------------------------------------------
(* Sections of the script *)

LEMMA CopyFilesInstallInv ==
  ASSUME InstallInv, CopyFiles
  PROVE  InstallInv'
<1> USE DEF InstallInv, CopyFiles, Step, Others
<1>1. run \in 1..MaxApplies /\ wants \in Wants /\ outcome' = None
  BY AtWork
<1>2. /\ tree' \in [Areas -> Content \cup {None}]
      /\ \A a \in Areas \ {"files"} : tree'[a] = tree[a]
      /\ tree'["files"] = Raw
      /\ Raw.by = run
      /\ Raw # None
  BY <1>1, Contents, InstallAssumption DEF TypeOK, Areas
<1>3. TypeOK'
  BY <1>1, <1>2, WrittenTypes DEF TypeOK, Phases, Areas
<1>4. Begun'
  BY AtWork DEF Begun
<1>5. CopiesDone'
  BY <1>2, AtWork DEF CopiesDone, Current, OfVariant, Known, Variants, Areas, Raw
<1>6. DocumentsDone'
  BY <1>2, AtWork DEF DocumentsDone, Finished, Current, VaultLinesRight,
     VaultWanted, Areas
<1>7. VaultDone'
  BY <1>2, AtWork DEF VaultDone, CopiesDone, Current, VaultLinesRight,
     VaultWanted, OfVariant, Known, Variants, Areas, Raw
<1> QED BY <1>3, <1>4, <1>5, <1>6, <1>7

LEMMA FillFilesInstallInv ==
  ASSUME InstallInv, FillFiles
  PROVE  InstallInv'
<1> USE DEF InstallInv, FillFiles, Step, Others
<1>1. run \in 1..MaxApplies /\ wants \in Wants /\ outcome' = None
  BY AtWork
<1>2. /\ tree' \in [Areas -> Content \cup {None}]
      /\ \A a \in Areas \ {"files"} : tree'[a] = tree[a]
      /\ tree'["files"] # None /\ tree'["files"].by = run
      /\ tree'["files"].variant = wants.variant
  BY <1>1, Contents, InstallAssumption DEF TypeOK, Areas, CopiesDone
<1>3. TypeOK'
  BY <1>1, <1>2, WrittenTypes DEF TypeOK, Phases, Areas
<1>4. Begun'
  BY AtWork DEF Begun
<1>5. CopiesDone'
  BY <1>2, AtWork DEF CopiesDone, Current, OfVariant, Known, Variants, Areas, Raw
<1>6. DocumentsDone'
  BY <1>2, AtWork DEF DocumentsDone, Finished, Current, VaultLinesRight,
     VaultWanted, Areas
<1>7. VaultDone'
  BY <1>2, AtWork DEF VaultDone, CopiesDone, Current, VaultLinesRight,
     VaultWanted, OfVariant, Known, Variants, Areas, Raw
<1> QED BY <1>3, <1>4, <1>5, <1>6, <1>7

LEMMA CopyStatesInstallInv ==
  ASSUME InstallInv, CopyStates
  PROVE  InstallInv'
<1> USE DEF InstallInv, CopyStates, Step, Others
<1>1. run \in 1..MaxApplies /\ wants \in Wants /\ outcome' = None
  BY AtWork
<1>2. /\ tree' \in [Areas -> Content \cup {None}]
      /\ \A a \in Areas \ {"states"} : tree'[a] = tree[a]
      /\ tree'["states"] # None /\ tree'["states"].by = run
      /\ tree'["states"].variant = wants.variant
  BY <1>1, Contents, InstallAssumption DEF TypeOK, Areas
<1>3. TypeOK'
  BY <1>1, <1>2, WrittenTypes DEF TypeOK, Phases, Areas
<1>4. Begun'
  BY AtWork DEF Begun
<1>5. CopiesDone'
  BY <1>2, AtWork DEF CopiesDone, Current, OfVariant, Known, Variants, Areas, Raw
<1>6. DocumentsDone'
  BY <1>2, AtWork DEF DocumentsDone, Finished, Current, VaultLinesRight,
     VaultWanted, Areas
<1>7. VaultDone'
  BY <1>2, AtWork DEF VaultDone, CopiesDone, Current, VaultLinesRight,
     VaultWanted, OfVariant, Known, Variants, Areas, Raw
<1> QED BY <1>3, <1>4, <1>5, <1>6, <1>7

LEMMA CopyPillarInstallInv ==
  ASSUME InstallInv, CopyPillar
  PROVE  InstallInv'
<1> USE DEF InstallInv, CopyPillar, Step, Others
<1>1. run \in 1..MaxApplies /\ wants \in Wants /\ outcome' = None
  BY AtWork
<1>2. /\ tree' \in [Areas -> Content \cup {None}]
      /\ \A a \in Areas \ {"pillar", "salt", "ssh", "macro"} : tree'[a] = tree[a]
      /\ tree'["macro"] = Raw
      /\ tree'["pillar"] # None /\ tree'["pillar"].by = run
      /\ tree'["pillar"].variant = wants.variant
      /\ tree'["salt"] = Raw /\ tree'["ssh"] = Raw
      /\ Raw.by = run /\ Raw # None
  BY <1>1, Contents, InstallAssumption DEF TypeOK, Areas
<1>3. TypeOK'
  BY <1>1, <1>2, WrittenTypes DEF TypeOK, Phases, Areas
<1>4. Begun'
  BY AtWork DEF Begun
<1>5. CopiesDone'
  BY <1>2, AtWork DEF CopiesDone, Current, OfVariant, Known, Variants, Areas, Raw
<1>6. DocumentsDone'
  BY <1>2, AtWork DEF DocumentsDone, Finished, Current, VaultLinesRight,
     VaultWanted, Areas
<1>7. VaultDone'
  BY <1>2, AtWork DEF VaultDone, CopiesDone, Current, VaultLinesRight,
     VaultWanted, OfVariant, Known, Variants, Areas, Raw
<1> QED BY <1>3, <1>4, <1>5, <1>6, <1>7

LEMMA ChooseVariantInstallInv ==
  ASSUME InstallInv, ChooseVariant
  PROVE  InstallInv'
<1> USE DEF InstallInv, ChooseVariant, Step, Others
<1>1. run \in 1..MaxApplies /\ wants \in Wants /\ outcome' = None
  BY AtWork
<1>2. /\ tree' \in [Areas -> Content \cup {None}]
      /\ \A a \in Areas \ {"salt", "ssh"} : tree'[a] = tree[a]
      /\ wants.variant = "salt" =>
            /\ tree'["ssh"] = None /\ tree'["salt"] # None
            /\ tree'["salt"].by = run /\ tree'["salt"].variant = wants.variant
            /\ tree'["salt"].vault = "raw"
      /\ wants.variant = "salt-ssh" =>
            /\ tree'["salt"] = None /\ tree'["ssh"] # None
            /\ tree'["ssh"].by = run /\ tree'["ssh"].variant = wants.variant
      /\ ~Known => tree' = tree
  <2> USE <1>1, Contents, InstallAssumption DEF TypeOK, Areas, CopiesDone
  <2>1. CASE wants.variant = "salt"
    BY <2>1 DEF Known, Variants
  <2>2. CASE wants.variant = "salt-ssh"
    BY <2>2 DEF Known, Variants
  <2>3. CASE ~Known
    BY <2>3 DEF Known, Variants
  <2> QED BY <2>1, <2>2, <2>3 DEF Known, Variants
<1>3. TypeOK'
  BY <1>1, <1>2, WrittenTypes DEF TypeOK, Phases, Areas
<1>4. Begun'
  BY AtWork DEF Begun
<1>5. CopiesDone'
  BY <1>2, AtWork DEF CopiesDone, Current, OfVariant, Known, Variants, Areas, Raw
<1>6. DocumentsDone'
  BY <1>2, AtWork DEF DocumentsDone, Finished, Current, VaultLinesRight,
     VaultWanted, Areas
<1>7. VaultDone'
  BY <1>2, AtWork DEF VaultDone, CopiesDone, Current, VaultLinesRight,
     VaultWanted, OfVariant, Known, Variants, Areas, Raw
<1> QED BY <1>3, <1>4, <1>5, <1>6, <1>7

LEMMA CopyCiInstallInv ==
  ASSUME InstallInv, CopyCi
  PROVE  InstallInv'
<1> USE DEF InstallInv, CopyCi, Step, Others
<1>1. run \in 1..MaxApplies /\ wants \in Wants /\ outcome' = None
  BY AtWork
<1>2. /\ tree' \in [Areas -> Content \cup {None}]
      /\ \A a \in Areas \ {"ci"} : tree'[a] = tree[a]
      /\ Known => /\ tree'["ci"] # None /\ tree'["ci"].by = run
                  /\ tree'["ci"].variant = wants.variant
                  /\ tree'["ci"].vault = "raw"
      /\ ~Known => tree' = tree
  BY <1>1, Contents, InstallAssumption DEF TypeOK, Areas
<1>3. TypeOK'
  BY <1>1, <1>2, WrittenTypes DEF TypeOK, Phases, Areas
<1>4. Begun'
  BY AtWork DEF Begun
<1>5. CopiesDone'
  BY <1>2, AtWork DEF CopiesDone, Current, OfVariant, Known, Variants, Areas, Raw
<1>6. DocumentsDone'
  BY <1>2, AtWork DEF DocumentsDone, Finished, Current, VaultLinesRight,
     VaultWanted, Areas
<1>7. VaultDone'
  BY <1>2, AtWork DEF VaultDone, CopiesDone, Current, VaultLinesRight,
     VaultWanted, OfVariant, Known, Variants, Areas, Raw
<1> QED BY <1>3, <1>4, <1>5, <1>6, <1>7

LEMMA CopyDockerInstallInv ==
  ASSUME InstallInv, CopyDocker
  PROVE  InstallInv'
<1> USE DEF InstallInv, CopyDocker, Step, Others
<1>1. run \in 1..MaxApplies /\ wants \in Wants /\ outcome' = None
  BY AtWork
<1>2. /\ tree' \in [Areas -> Content \cup {None}]
      /\ \A a \in Areas \ {"docker", "profile"} : tree'[a] = tree[a]
      /\ tree'["docker"] # None /\ tree'["docker"].by = run
      /\ tree'["docker"].variant = wants.variant
      /\ tree'["profile"] = Raw
      /\ Raw.by = run /\ Raw # None
  BY <1>1, Contents, InstallAssumption DEF TypeOK, Areas
<1>3. TypeOK'
  BY <1>1, <1>2, WrittenTypes DEF TypeOK, Phases, Areas
<1>4. Begun'
  BY AtWork DEF Begun
<1>5. CopiesDone'
  BY <1>2, AtWork DEF CopiesDone, Current, OfVariant, Known, Variants, Areas, Raw
<1>6. DocumentsDone'
  BY <1>2, AtWork DEF DocumentsDone, Finished, Current, VaultLinesRight,
     VaultWanted, Areas
<1>7. VaultDone'
  BY <1>2, AtWork DEF VaultDone, CopiesDone, Current, VaultLinesRight,
     VaultWanted, OfVariant, Known, Variants, Areas, Raw
<1> QED BY <1>3, <1>4, <1>5, <1>6, <1>7

LEMMA WriteReadmeInstallInv ==
  ASSUME InstallInv, WriteReadme
  PROVE  InstallInv'
<1> USE DEF InstallInv, WriteReadme, Step, Others
<1>1. run \in 1..MaxApplies /\ wants \in Wants /\ outcome' = None
  BY AtWork
<1>2. /\ tree' \in [Areas -> Content \cup {None}]
      /\ \A a \in Areas \ {"readme"} : tree'[a] = tree[a]
      /\ tree'["readme"] = Document("readme") /\ Document("readme") # None
      /\ Document("readme").by = run /\ Document("readme").variant = wants.variant
      /\ Document("readme").vault = IF VaultWanted THEN "on" ELSE "off"
      /\ Document("readme").notes = IF HasNotes THEN 1 ELSE 0
  BY <1>1, Documents, InstallAssumption DEF TypeOK, Areas
<1>3. TypeOK'
  BY <1>1, <1>2, WrittenTypes DEF TypeOK, Phases, Areas
<1>4. Begun'
  BY AtWork DEF Begun
<1>5. CopiesDone'
  BY <1>2, AtWork DEF CopiesDone, Current, OfVariant, Known, Variants, Areas, Raw
<1>6. DocumentsDone'
  BY <1>2, AtWork DEF DocumentsDone, Finished, Current, VaultLinesRight,
     VaultWanted, Areas
<1>7. VaultDone'
  BY <1>2, AtWork DEF VaultDone, CopiesDone, Current, VaultLinesRight,
     VaultWanted, OfVariant, Known, Variants, Areas, Raw
<1> QED BY <1>3, <1>4, <1>5, <1>6, <1>7

LEMMA WriteAgentsInstallInv ==
  ASSUME InstallInv, WriteAgents
  PROVE  InstallInv'
<1> USE DEF InstallInv, WriteAgents, Step, Others
<1>1. run \in 1..MaxApplies /\ wants \in Wants /\ outcome' = None
  BY AtWork
<1>2. /\ tree' \in [Areas -> Content \cup {None}]
      /\ \A a \in Areas \ {"agents"} : tree'[a] = tree[a]
      /\ tree'["agents"] = Document("agents") /\ Document("agents") # None
      /\ Document("agents").by = run /\ Document("agents").variant = wants.variant
      /\ Document("agents").vault = IF VaultWanted THEN "on" ELSE "off"
      /\ Document("agents").notes = IF HasNotes THEN 1 ELSE 0
  BY <1>1, Documents, InstallAssumption DEF TypeOK, Areas
<1>3. TypeOK'
  BY <1>1, <1>2, WrittenTypes DEF TypeOK, Phases, Areas
<1>4. Begun'
  BY AtWork DEF Begun
<1>5. CopiesDone'
  BY <1>2, AtWork DEF CopiesDone, Current, OfVariant, Known, Variants, Areas, Raw
<1>6. DocumentsDone'
  BY <1>2, AtWork DEF DocumentsDone, Finished, Current, VaultLinesRight,
     VaultWanted, Areas
<1>7. VaultDone'
  BY <1>2, AtWork DEF VaultDone, CopiesDone, Current, VaultLinesRight,
     VaultWanted, OfVariant, Known, Variants, Areas, Raw
<1> QED BY <1>3, <1>4, <1>5, <1>6, <1>7

LEMMA EnableVaultInstallInv ==
  ASSUME InstallInv, EnableVault
  PROVE  InstallInv'
<1> USE DEF InstallInv, EnableVault, Step, Others
<1>1. run \in 1..MaxApplies /\ wants \in Wants /\ outcome' = None
  BY AtWork
<1>2. /\ tree' \in [Areas -> Content \cup {None}]
      /\ \A a \in Areas \ {"ci", "salt", "profile", "macro"} : tree'[a] = tree[a]
      /\ tree'["ci"] # None /\ tree'["ci"].by = tree["ci"].by
      /\ Known => /\ tree'["ci"].by = run /\ tree'["ci"].variant = wants.variant
                  /\ tree'["ci"].vault = IF VaultWanted THEN "on" ELSE "off"
      /\ IF wants.variant = "salt"
         THEN /\ tree'["salt"] # None /\ tree'["ssh"] = None
              /\ tree'["salt"].by = run /\ tree'["salt"].variant = wants.variant
              /\ tree'["salt"].vault = IF VaultWanted THEN "on" ELSE "off"
         ELSE tree'["salt"] = tree["salt"]
      /\ VaultWanted
      /\ \A a \in {"profile", "macro"} :
            /\ tree'[a] # None /\ tree'[a].by = run
            /\ tree'[a].variant = wants.variant
  BY <1>1, Contents, InstallAssumption
     DEF TypeOK, Areas, CopiesDone, VaultDone, Current, OfVariant, VaultWanted,
         Known, Variants
<1>3. TypeOK'
  BY <1>1, <1>2, WrittenTypes DEF TypeOK, Phases, Areas
<1>4. Begun'
  BY AtWork DEF Begun
<1>5. CopiesDone'
  BY <1>2, AtWork DEF CopiesDone, Current, OfVariant, Known, Variants, Areas, Raw
<1>6. DocumentsDone'
  BY <1>2, AtWork DEF DocumentsDone, Finished, Current, VaultLinesRight,
     VaultWanted, Areas
<1>7. VaultDone'
  BY <1>2, AtWork DEF VaultDone, CopiesDone, Current, VaultLinesRight,
     VaultWanted, OfVariant, Known, Variants, Areas, Raw
<1> QED BY <1>3, <1>4, <1>5, <1>6, <1>7

LEMMA StripVaultInstallInv ==
  ASSUME InstallInv, StripVault
  PROVE  InstallInv'
<1> USE DEF InstallInv, StripVault, Step, Others
<1>1. run \in 1..MaxApplies /\ wants \in Wants /\ outcome' = None
  BY AtWork
<1>2. /\ tree' \in [Areas -> Content \cup {None}]
      /\ \A a \in Areas \ {"ci", "salt", "profile", "macro"} : tree'[a] = tree[a]
      /\ tree'["ci"] # None /\ tree'["ci"].by = tree["ci"].by
      /\ Known => /\ tree'["ci"].by = run /\ tree'["ci"].variant = wants.variant
                  /\ tree'["ci"].vault = IF VaultWanted THEN "on" ELSE "off"
      /\ IF wants.variant = "salt"
         THEN /\ tree'["salt"] # None /\ tree'["ssh"] = None
              /\ tree'["salt"].by = run /\ tree'["salt"].variant = wants.variant
              /\ tree'["salt"].vault = IF VaultWanted THEN "on" ELSE "off"
         ELSE tree'["salt"] = tree["salt"]
      /\ ~VaultWanted /\ tree'["profile"] = None /\ tree'["macro"] = None
  BY <1>1, Contents, InstallAssumption
     DEF TypeOK, Areas, CopiesDone, VaultDone, Current, OfVariant, VaultWanted,
         Known, Variants
<1>3. TypeOK'
  BY <1>1, <1>2, WrittenTypes DEF TypeOK, Phases, Areas
<1>4. Begun'
  BY AtWork DEF Begun
<1>5. CopiesDone'
  BY <1>2, AtWork DEF CopiesDone, Current, OfVariant, Known, Variants, Areas, Raw
<1>6. DocumentsDone'
  BY <1>2, AtWork DEF DocumentsDone, Finished, Current, VaultLinesRight,
     VaultWanted, Areas
<1>7. VaultDone'
  BY <1>2, AtWork DEF VaultDone, CopiesDone, Current, VaultLinesRight,
     VaultWanted, OfVariant, Known, Variants, Areas, Raw
<1> QED BY <1>3, <1>4, <1>5, <1>6, <1>7

(* The end of the script, and a step that leaves the repository as it is.    *)
LEMMA StopsInstallInv ==
  ASSUME InstallInv,
         RefuseNested \/ NoStates \/ RefusePartial \/ NoCi \/ Breaks
  PROVE  InstallInv'
<1> USE DEF InstallInv, RefuseNested, NoStates, RefusePartial, NoCi, Breaks,
        Exit, Others
<1>1. pc # "idle" /\ pc' = "idle" /\ outcome' \in {"refused", "failed", "broken"}
  OBVIOUS
<1>2. TypeOK'
  BY <1>1, WrittenTypes DEF TypeOK, Phases, Outcomes
<1>3. Begun' /\ CopiesDone' /\ DocumentsDone' /\ VaultDone'
  BY <1>1 DEF Begun, CopiesDone, DocumentsDone, VaultDone
<1> QED BY <1>2, <1>3

LEMMA MovesOnInstallInv ==
  ASSUME InstallInv, SaveClaude \/ LinkClaude \/ CleanUp
  PROVE  InstallInv'
<1> USE DEF InstallInv, SaveClaude, LinkClaude, CleanUp, Step, Exit, Others
<1>1. pc # "idle" /\ outcome = None /\ outcome # "applied" /\ wants # None
  BY AtWork
<1>2. TypeOK'
  BY <1>1, WrittenTypes DEF TypeOK, Phases, Outcomes
<1>3. Begun'
  BY <1>1, AtWork DEF Begun
<1>4. CopiesDone'
  BY <1>1 DEF CopiesDone, Current, OfVariant, Known
<1>5. DocumentsDone'
  BY <1>1 DEF DocumentsDone, Current, Finished, VaultLinesRight, VaultWanted
<1>6. VaultDone'
  BY <1>1 DEF VaultDone, Current, VaultLinesRight, VaultWanted, Known, Raw
<1> QED BY <1>2, <1>3, <1>4, <1>5, <1>6

-----------------------------------------------------------------------------
(* Between two applies *)

LEMMA ApplyInstallInv ==
  ASSUME InstallInv, NEW w \in Wants, Apply(w)
  PROVE  InstallInv'
<1> USE DEF InstallInv, Apply
<1>1. run \in Nat /\ run' \in 1..MaxApplies /\ run <= run'
  BY InstallAssumption DEF TypeOK
<1>2. wants' \in Wants /\ wants' # None /\ outcome' = None /\ outcome' # "applied"
  BY InstallAssumption DEF Outcomes
<1>3. (\A a \in Areas : tree[a] # None => tree[a].by <= run)'
  <2> SUFFICES ASSUME NEW a \in Areas, tree[a] # None PROVE tree[a].by <= run'
    OBVIOUS
  <2>1. tree[a].by \in 1..MaxApplies /\ tree[a].by <= run
    BY DEF TypeOK, Content
  <2> QED BY <1>1, <2>1, InstallAssumption
<1>4. run' \in 0..MaxApplies
  BY <1>1, InstallAssumption
<1>5. TypeOK'
  BY <1>2, <1>3, <1>4 DEF TypeOK, Phases
<1>6. Begun'
  BY <1>1, <1>2 DEF Begun
<1>7. CopiesDone' /\ DocumentsDone' /\ VaultDone'
  BY <1>2 DEF CopiesDone, DocumentsDone, VaultDone
<1> QED BY <1>5, <1>6, <1>7

(* What the sections have done does not depend on CLAUDE.md.                 *)
LEMMA RepositoryUntouched ==
  ASSUME InstallInv, TypeOK', UNCHANGED <<tree, run, wants, pc, outcome>>
  PROVE  InstallInv'
<1> USE DEF InstallInv
<1>1. Begun'
  BY DEF Begun
<1>2. CopiesDone' /\ DocumentsDone' /\ VaultDone'
  BY DEF CopiesDone, DocumentsDone, VaultDone, Current, Finished,
     OfVariant, VaultLinesRight, VaultWanted, Known, Raw
<1> QED BY <1>1, <1>2

LEMMA WriteClaudeInstallInv ==
  ASSUME InstallInv, WriteClaude
  PROVE  InstallInv'
<1>1. written' \in 0..MaxEdits /\ claude' \in 1..MaxEdits
  BY InstallAssumption DEF InstallInv, TypeOK, WriteClaude
<1>2. TypeOK'
  BY <1>1 DEF InstallInv, TypeOK, WriteClaude
<1> QED BY <1>2, RepositoryUntouched DEF WriteClaude

LEMMA NextInstallInv ==
  ASSUME InstallInv, [Next]_vars
  PROVE  InstallInv'
<1>1. CASE \E w \in Wants : Apply(w)
  BY <1>1, ApplyInstallInv
<1>2. CASE Script
  BY <1>2, CopyFilesInstallInv, FillFilesInstallInv, CopyStatesInstallInv,
     CopyPillarInstallInv, ChooseVariantInstallInv, CopyCiInstallInv,
     CopyDockerInstallInv, WriteReadmeInstallInv, WriteAgentsInstallInv,
     EnableVaultInstallInv, StripVaultInstallInv, MovesOnInstallInv,
     StopsInstallInv DEF Script
<1>3. CASE Breaks
  BY <1>3, StopsInstallInv
<1>4. CASE WriteClaude
  BY <1>4, WriteClaudeInstallInv
<1>5. CASE Over \/ UNCHANGED vars
  <2>1. TypeOK'
    BY <1>5 DEF InstallInv, TypeOK, Over, vars
  <2> QED BY <1>5, <2>1, RepositoryUntouched DEF Over, vars
<1> QED BY <1>1, <1>2, <1>3, <1>4, <1>5 DEF Next

LEMMA InstallInvHolds == Spec => []InstallInv
  BY InitInstallInv, NextInstallInv, PTL DEF Spec

-----------------------------------------------------------------------------
(* Theorems *)

(* Nothing in the repository is newer than the last apply.                   *)
THEOREM InstallTypeCorrect == Spec => []TypeOK
<1>1. InstallInv => TypeOK
  BY DEF InstallInv
<1> QED BY <1>1, InstallInvHolds, PTL

(* After an apply that came to its end the repository is what its arguments  *)
(* say, whatever earlier applies left and wherever they stopped              *)
(* (install.sh, 205-499).                                                    *)
THEOREM AppliesAreComplete == Spec => []AppliedIsComplete
<1>1. ASSUME InstallInv, outcome = "applied"
      PROVE  /\ pc = "idle"
             /\ CopiesDone /\ DocumentsDone /\ VaultDone
  BY <1>1 DEF InstallInv, Begun
<1>2. InstallInv => AppliedIsComplete
  BY <1>1 DEF AppliedIsComplete, CopiesDone, DocumentsDone, VaultDone, OfVariant,
     Finished, Known, Variants
<1> QED BY <1>2, InstallInvHolds, PTL

(* What somebody last wrote in CLAUDE.md himself is kept, under its name or  *)
(* as the saved copy: a version under its name is always the last one, and   *)
(* it has been moved away when the link is made (install.sh, 413-418).       *)
THEOREM HandWrittenIsKept == Spec => []HandWrittenKept
<1> DEFINE Kept ==
      /\ HandWrittenKept
      /\ claude \in {None, Link, written}
      /\ pc = "link" => claude \in {None, Link}
<1>1. Init => Kept
  BY InstallAssumption DEF Init, HandWrittenKept
<1>2. ASSUME TypeOK, Kept, Next PROVE Kept'
  <2>1. CASE SaveClaude
    BY <1>2, <2>1, InstallAssumption
       DEF SaveClaude, Step, Others, HandWritten, HandWrittenKept, TypeOK
  <2>2. CASE LinkClaude
    BY <1>2, <2>2, InstallAssumption
       DEF LinkClaude, Step, Others, HandWrittenKept, TypeOK
  <2>3. CASE WriteClaude
    BY <1>2, <2>3 DEF WriteClaude, HandWrittenKept, TypeOK
  <2>4. ASSUME UNCHANGED <<claude, backup, written>>, pc' # "link"
        PROVE  Kept'
    BY <1>2, <2>4 DEF HandWrittenKept
  <2>5. CASE UNCHANGED vars
    BY <1>2, <2>5 DEF vars, HandWrittenKept
  <2>6. ASSUME \/ Breaks \/ \E w \in Wants : Apply(w)
               \/ CopyFiles \/ FillFiles \/ RefuseNested \/ CopyStates
               \/ NoStates \/ CopyPillar \/ ChooseVariant \/ CopyCi
               \/ CopyDocker \/ WriteReadme \/ WriteAgents \/ EnableVault
               \/ RefusePartial \/ StripVault \/ NoCi \/ CleanUp
        PROVE  UNCHANGED <<claude, backup, written>> /\ pc' # "link"
    BY <2>6 DEF Breaks, Apply, CopyFiles, FillFiles, RefuseNested, CopyStates,
       NoStates, CopyPillar, ChooseVariant, CopyCi, CopyDocker, WriteReadme,
       WriteAgents, EnableVault, RefusePartial, StripVault, NoCi, CleanUp,
       Step, Exit, Others
  <2> QED BY <1>2, <2>1, <2>2, <2>3, <2>4, <2>5, <2>6 DEF Next, Script, Over
<1>3. ASSUME Kept, UNCHANGED vars PROVE Kept'
  BY <1>3 DEF vars, HandWrittenKept
<1>4. Kept => HandWrittenKept
  OBVIOUS
<1> QED BY <1>1, <1>2, <1>3, <1>4, InstallTypeCorrect, PTL DEF Spec
================================================================================
