------------------------------ MODULE Certificates ------------------------------
(***************************************************************************)
(* The certificate chain of one eUICC, app/crypto/certificates.py, and the *)
(* files it leaves in the eUICC's directory from one process to the next.  *)
(*                                                                         *)
(* A key is a number and a certificate says whose key it certifies and     *)
(* whose key signed it; an identifier (SKI, AKI) is the key it is derived  *)
(* from.  The SGP.26 package, which holds a CI and an EUM for every eUICC, *)
(* may come or go between two processes.  The DER file _save_key_pair      *)
(* writes last is never read and left out.                                 *)
(*                                                                         *)
(* initialize() runs without an await, and nobody reads the files while it *)
(* does: only a crash makes the order of its writes matter.                *)
(***************************************************************************)
EXTENDS Integers, Sequences

CONSTANTS
  Missing,   \* no such file
  Torn,      \* a file whose writing was cut: it does not parse
  Nothing,   \* no chain in memory, no identity to keep
  MaxKey     \* bound: keys generated

ASSUME MaxKeyAssumption == MaxKey \in Nat /\ MaxKey >= 5

\* The keys of the package; the others are generated.
SgpCi == 1
SgpEum == 2

Keys == 1..MaxKey

Names == {"ci", "eum", "euicc"}

Modes == {"sgp26", "legacy"}

Certificate == [subject : Keys, issuer : Keys]

\* KeyPairBundle
Bundle == [key : Keys, certificate : Certificate]

ASSUME AbsenceAssumption ==
  /\ Missing # Torn
  /\ {Missing, Torn} \intersect (Keys \union Certificate) = {}
  /\ Nothing \notin Bundle
  /\ Nothing \notin [Names -> Bundle]

VARIABLES
  phase,       \* "down", "saving" what initialize() generated, or "ready"
  package,     \* are the four files of the SGP.26 package there?
  key_file,    \* <name>_private.pem
  cert_file,   \* <name>_cert.pem
  chain,       \* ci, eum and euicc in memory
  unsaved,     \* the names of the bundles still to be saved, in order
  key_saved,   \* is the key of the first of them on disk?
  next_key,
  mode,        \* history: the mode of the last start
  raised,      \* history: initialize() raised in the last start
  overtaken,   \* history: an SGP.26 start came after a legacy one
  modes,       \* history: the modes started in
  interrupted, \* history: a crash cut the saving of a key pair
  identity     \* history: the last euicc bundle ready, while no start in the other mode came

fileVars == <<key_file, cert_file>>

historyVars == <<mode, modes, overtaken>>

certVars ==
  <<phase, package, fileVars, chain, unsaved, key_saved, next_key, raised, historyVars,
    interrupted, identity>>

-----------------------------------------------------------------------------
(* Bundles and files *)

Issued(key, issuer) == [key |-> key, certificate |-> [subject |-> key, issuer |-> issuer]]

\* A broken variant: a certificate that is missing or torn raises nothing.
KeyLoads(name) == key_file[name] \in Keys

\* _load_key_pair raises when one of the two files is missing or torn.
Loads(name) == key_file[name] \in Keys /\ cert_file[name] \in Certificate

OnDisk(name) == [key |-> key_file[name], certificate |-> cert_file[name]]

\* A broken variant: any certificate that parses will do.
Parses == cert_file["euicc"] \in Certificate

\* A broken variant: every process issues the certificate anew.
Never == FALSE

\* _euicc_cert_chains_to: a certificate that does not parse chains to nobody.
ChainsToEum == cert_file["euicc"] \in Certificate /\ cert_file["euicc"].issuer = SgpEum

-----------------------------------------------------------------------------
(* initialize *)

Enter(m) ==
  /\ phase = "down"
  /\ mode' = m
  /\ modes' = modes \union {m}
  /\ overtaken' = (overtaken \/ (m = "sgp26" /\ "legacy" \in modes))
  /\ identity' = IF m = mode THEN identity ELSE Nothing
  /\ UNCHANGED <<package, fileVars, interrupted>>

\* The chain is complete in memory; some of its bundles are new.
Install(bundles, new) ==
  /\ chain' = bundles
  /\ unsaved' = new
  /\ key_saved' = FALSE
  /\ next_key' = next_key + Len(new)
  /\ next_key' <= MaxKey + 1
  /\ raised' = FALSE
  /\ phase' = "saving"

\* The exception leaves initialize(), and no instance is made.
Raise ==
  /\ raised' = TRUE
  /\ UNCHANGED <<phase, chain, unsaved, key_saved, next_key>>

\* The package's CI and EUM with an euicc bundle.
SgpChain(euicc) ==
  [n \in Names |-> CASE n = "ci" -> Issued(SgpCi, SgpCi)
                     [] n = "eum" -> Issued(SgpEum, SgpCi)
                     [] n = "euicc" -> euicc]

StartSgp ==
  /\ package
  /\ Enter("sgp26")
  /\ \/ /\ key_file["euicc"] # Missing /\ ChainsToEum
        /\ \/ Loads("euicc") /\ Install(SgpChain(OnDisk("euicc")), <<>>)
           \/ ~Loads("euicc") /\ Raise
     \/ /\ ~(key_file["euicc"] # Missing /\ ChainsToEum)
        /\ Install(SgpChain(Issued(next_key, SgpEum)), <<"euicc">>)

\* _load_existing: all that is asked of the files is that they parse.
LoadExisting ==
  \/ /\ \A n \in Names : Loads(n)
     /\ Install([n \in Names |-> OnDisk(n)], <<>>)
  \/ /\ Loads("ci") /\ Loads("eum") /\ key_file["euicc"] = Missing
     /\ Install([n \in Names |-> IF n = "euicc" THEN Issued(next_key, key_file["eum"])
                                 ELSE OnDisk(n)],
                <<"euicc">>)
  \/ /\ ~Loads("ci") \/ ~Loads("eum") \/ (key_file["euicc"] # Missing /\ ~Loads("euicc"))
     /\ Raise

\* _generate_full_chain, over whatever is there.
GenerateFullChain ==
  Install([n \in Names |-> CASE n = "ci" -> Issued(next_key, next_key)
                             [] n = "eum" -> Issued(next_key + 1, next_key)
                             [] n = "euicc" -> Issued(next_key + 2, next_key + 1)],
          <<"ci", "eum", "euicc">>)

StartLegacy ==
  /\ ~package
  /\ Enter("legacy")
  /\ \/ key_file["ci"] # Missing /\ LoadExisting
     \/ key_file["ci"] = Missing /\ GenerateFullChain

-----------------------------------------------------------------------------
(* _save_key_pair *)

\* A broken variant: the certificate first.
WritesReversed(key, certificate) ==
  LET name == Head(unsaved)
  IN IF ~key_saved
     THEN /\ cert_file' = [cert_file EXCEPT ![name] = certificate]
          /\ UNCHANGED key_file
     ELSE /\ key_file' = [key_file EXCEPT ![name] = key]
          /\ UNCHANGED cert_file

\* The first write to come, done or cut.
Writes(key, certificate) ==
  LET name == Head(unsaved)
  IN IF key_saved
     THEN /\ cert_file' = [cert_file EXCEPT ![name] = certificate]
          /\ UNCHANGED key_file
     ELSE /\ key_file' = [key_file EXCEPT ![name] = key]
          /\ UNCHANGED cert_file

Save ==
  /\ phase = "saving" /\ unsaved # <<>>
  /\ Writes(chain[Head(unsaved)].key, chain[Head(unsaved)].certificate)
  /\ key_saved' = ~key_saved
  /\ unsaved' = IF key_saved THEN Tail(unsaved) ELSE unsaved
  /\ UNCHANGED <<phase, package, chain, next_key, raised, historyVars, interrupted, identity>>

Ready ==
  /\ phase = "saving" /\ unsaved = <<>>
  /\ phase' = "ready"
  /\ identity' = chain["euicc"]
  /\ UNCHANGED <<package, fileVars, chain, unsaved, key_saved, next_key, raised, historyVars,
                 interrupted>>

\* The process ends, however it does, with its chain in use.
Stop ==
  /\ phase = "ready"
  /\ phase' = "down"
  /\ chain' = Nothing
  /\ UNCHANGED <<package, fileVars, unsaved, key_saved, next_key, raised, historyVars,
                 interrupted, identity>>

\* The process ends while it saves: before a write, or within it.
Crash ==
  /\ phase = "saving" /\ unsaved # <<>>
  /\ phase' = "down"
  /\ chain' = Nothing
  /\ unsaved' = <<>>
  /\ key_saved' = FALSE
  /\ interrupted' = TRUE
  /\ Writes(Torn, Torn) \/ UNCHANGED fileVars
  /\ UNCHANGED <<package, next_key, raised, historyVars, identity>>

\* Not the simulator's doing.
SwitchPackage ==
  /\ phase = "down"
  /\ package' = ~package
  /\ UNCHANGED <<phase, fileVars, chain, unsaved, key_saved, next_key, raised, historyVars,
                 interrupted, identity>>

CertInit ==
  /\ phase = "down"
  /\ package \in BOOLEAN
  /\ key_file = [n \in Names |-> Missing]
  /\ cert_file = [n \in Names |-> Missing]
  /\ chain = Nothing
  /\ unsaved = <<>>
  /\ key_saved = FALSE
  /\ next_key = 3
  /\ mode = "none"
  /\ modes = {}
  /\ raised = FALSE
  /\ overtaken = FALSE
  /\ interrupted = FALSE
  /\ identity = Nothing

CertNext ==
  \/ StartSgp \/ StartLegacy \/ Save \/ Ready \/ Stop \/ Crash \/ SwitchPackage

CertSpec == CertInit /\ [][CertNext]_certVars

-----------------------------------------------------------------------------
(* Properties *)

\* Every bundle in memory and every file is of its kind, and keys are
\* generated in order.
CertificatesTypeOK ==
  /\ phase \in {"down", "saving", "ready"}
  /\ package \in BOOLEAN
  /\ key_file \in [Names -> Keys \union {Missing, Torn}]
  /\ cert_file \in [Names -> Certificate \union {Missing, Torn}]
  /\ chain \in [Names -> Bundle] \union {Nothing}
  /\ unsaved \in {<<>>, <<"euicc">>, <<"eum", "euicc">>, <<"ci", "eum", "euicc">>}
  /\ key_saved \in BOOLEAN
  /\ next_key \in 3..(MaxKey + 1)
  /\ mode \in Modes \union {"none"}
  /\ modes \subseteq Modes
  /\ raised \in BOOLEAN
  /\ overtaken \in BOOLEAN
  /\ interrupted \in BOOLEAN
  /\ identity \in Bundle \union {Nothing}

\* Each certificate of a chain certifies the key it is with.
KeysFit == \A n \in Names : chain[n].certificate.subject = chain[n].key

Chained ==
  /\ chain["ci"].certificate.issuer = chain["ci"].key
  /\ chain["eum"].certificate.issuer = chain["ci"].key
  /\ chain["euicc"].certificate.issuer = chain["eum"].key

\* An eUICC in use has a chain CI -> EUM -> eUICC.  In SGP.26 mode this is so
\* whatever came before (_euicc_cert_chains_to); in legacy mode, which asks no
\* certificate for its issuer, while no SGP.26 start came after a legacy one
\* and, when one came before, no crash cut a save.  And it has the keys of its
\* certificates, unless a crash cut a save in a directory both modes used.
ChainSound ==
  phase = "ready" =>
    /\ mode = "sgp26" => Chained
    /\ mode = "legacy" /\ (modes = {"legacy"} \/ ~(overtaken \/ interrupted)) => Chained
    /\ modes # Modes \/ ~interrupted => KeysFit

\* An eUICC keeps its key and its certificate from one process to the next,
\* crashes and cut saves included, while no start in the other mode comes
\* between: only the first start of a mode issues.
IdentityKept ==
  [][phase # "ready" /\ phase' = "ready" /\ identity # Nothing
       => chain["euicc"] = identity]_certVars

\* initialize() raises in no start of an eUICC that was never stopped while its
\* chain was being saved, nor of one that knows the SGP.26 mode alone: whatever
\* the crashes, that mode repairs what they cut.  In legacy mode one cut save
\* can make every later start fail (ci_key_path.exists() is all it looks at).
StartsAgain == raised => interrupted /\ "legacy" \in modes
=============================================================================
