--------------------------- MODULE CertificatesProofs ---------------------------
(***************************************************************************)
(* What holds of an eUICC's certificate chain after any number of starts,  *)
(* for any number of keys.  CertInv joins what the files say to what the   *)
(* chain in memory says, while its bundles are saved one by one (SaveInv), *)
(* and what is known of the files after each kind of history: one without  *)
(* a cut save (CleanInv, SettledInv), one of SGP.26 starts alone           *)
(* (SgpOnlyInv) and one of legacy starts alone (LegacyOnlyInv).            *)
(***************************************************************************)
EXTENDS Certificates, TLAPS

Queue == {<<>>, <<"euicc">>, <<"eum", "euicc">>, <<"ci", "eum", "euicc">>}

Among(n, names) ==
  \/ n = "euicc" /\ names # <<>>
  \/ n = "eum" /\ names \in {<<"eum", "euicc">>, <<"ci", "eum", "euicc">>}
  \/ n = "ci" /\ names = <<"ci", "eum", "euicc">>

\* The bundle is still to be saved, or being saved.
Pending(n) == phase = "saving" /\ Among(n, unsaved)

\* The names a mode keeps files of
Own == IF mode = "sgp26" THEN {"euicc"} ELSE Names

IsSaved(n) == key_file[n] = chain[n].key /\ cert_file[n] = chain[n].certificate

IsAbsent(n) == key_file[n] = Missing /\ cert_file[n] = Missing

HasChain ==
  phase # "down" => chain \in [Names -> Bundle] /\ mode \in Modes /\ mode \in modes

SgpInv ==
  phase # "down" /\ mode = "sgp26" =>
    /\ chain = SgpChain(chain["euicc"])
    /\ chain["euicc"].certificate.issuer = SgpEum
    /\ unsaved \in {<<>>, <<"euicc">>}

SaveInv ==
  phase = "saving" =>
    /\ \A n \in Own : ~Pending(n) => IsSaved(n)
    /\ unsaved # <<>> /\ key_saved => key_file[Head(unsaved)] = chain[Head(unsaved)].key

IdentityInv ==
  identity # Nothing =>
    /\ identity = OnDisk("euicc")
    /\ mode = "sgp26" => identity.certificate.issuer = SgpEum
    /\ mode = "legacy" => Loads("ci") /\ Loads("eum")
    /\ phase = "saving" => unsaved = <<>> /\ chain["euicc"] = identity

\* No save was cut: a bundle is on disk as a whole or not at all.
CleanInv ==
  ~interrupted =>
    /\ \A n \in Names : ~Pending(n) => Loads(n) \/ IsAbsent(n)
    /\ ~Pending("eum") => (IsAbsent("ci") <=> IsAbsent("eum"))

\* SGP.26 starts alone: whatever certificate parses has its key and its EUM.
SgpOnlyInv ==
  "legacy" \notin modes =>
    /\ IsAbsent("ci") /\ IsAbsent("eum")
    /\ cert_file["euicc"] \in Certificate =>
         key_file["euicc"] \in Keys /\ cert_file["euicc"].issuer = SgpEum
    /\ Pending("euicc") => cert_file["euicc"] \notin Certificate

DiskChained ==
  /\ Loads("ci") => cert_file["ci"].issuer = key_file["ci"]
  /\ Loads("ci") /\ Loads("eum") => cert_file["eum"].issuer = key_file["ci"]
  /\ Loads("eum") /\ Loads("euicc") => cert_file["euicc"].issuer = key_file["eum"]

\* Legacy starts alone: nothing is ever written over.
LegacyOnlyInv ==
  "sgp26" \notin modes =>
    /\ phase # "down" => Chained
    /\ DiskChained
    /\ \A n \in Names : key_file[n] = Missing \/ Pending(n) => cert_file[n] = Missing
    /\ key_file["ci"] = Missing => \A n \in Names : IsAbsent(n)

\* Legacy starts with nothing cut and no SGP.26 start since the first.
SettledInv ==
  ~overtaken /\ ~interrupted /\ "legacy" \in modes =>
    /\ mode = "legacy"
    /\ phase # "down" => Chained
    /\ phase # "saving" => DiskChained /\ \A n \in Names : Loads(n)

FitInv ==
  modes # Modes \/ ~interrupted =>
    /\ phase # "down" => KeysFit
    /\ \A n \in Names :
         Loads(n) /\ ~Pending(n) => cert_file[n].subject = key_file[n]

ModesInv == mode = "none" <=> modes = {}

CertInv ==
  /\ CertificatesTypeOK
  /\ HasChain
  /\ SgpInv
  /\ SaveInv
  /\ IdentityInv
  /\ CleanInv
  /\ SgpOnlyInv
  /\ LegacyOnlyInv
  /\ SettledInv
  /\ FitInv
  /\ StartsAgain
  /\ ModesInv

LEMMA Distinct ==
  /\ SgpCi \in Keys /\ SgpEum \in Keys
  /\ Missing \notin Keys /\ Missing \notin Certificate /\ Missing # Torn
  /\ Torn \notin Keys /\ Torn \notin Certificate
  /\ Nothing \notin Bundle /\ Nothing \notin [Names -> Bundle]
BY MaxKeyAssumption, AbsenceAssumption DEF SgpCi, SgpEum, Keys

LEMMA Queues ==
  /\ Head(<<"euicc">>) = "euicc" /\ Tail(<<"euicc">>) = <<>>
  /\ Head(<<"eum", "euicc">>) = "eum" /\ Tail(<<"eum", "euicc">>) = <<"euicc">>
  /\ Head(<<"ci", "eum", "euicc">>) = "ci" /\ Tail(<<"ci", "eum", "euicc">>) = <<"eum", "euicc">>
  /\ Len(<<>>) = 0 /\ Len(<<"euicc">>) = 1
  /\ Len(<<"eum", "euicc">>) = 2 /\ Len(<<"ci", "eum", "euicc">>) = 3
  /\ <<>> # <<"euicc">> /\ <<>> # <<"eum", "euicc">> /\ <<>> # <<"ci", "eum", "euicc">>
  /\ <<"euicc">> # <<"eum", "euicc">> /\ <<"euicc">> # <<"ci", "eum", "euicc">>
  /\ <<"eum", "euicc">> # <<"ci", "eum", "euicc">>
OBVIOUS

LEMMA InitCertInv == CertInit => CertInv
<1> SUFFICES ASSUME CertInit PROVE CertInv
  OBVIOUS
<1>1. CertificatesTypeOK
  <2>1. /\ key_file \in [Names -> Keys \union {Missing, Torn}]
        /\ cert_file \in [Names -> Certificate \union {Missing, Torn}]
    BY DEF CertInit
  <2>2. next_key \in 3..(MaxKey + 1) /\ modes \subseteq Modes
    BY MaxKeyAssumption DEF CertInit
  <2> QED BY <2>1, <2>2 DEF CertInit, CertificatesTypeOK
<1>2. \A n \in Names : ~Loads(n) /\ IsAbsent(n)
  BY Distinct DEF CertInit, Loads, IsAbsent
<1>3. \A n \in Names : ~Pending(n)
  BY DEF CertInit, Pending
<1>4. HasChain /\ SgpInv /\ SaveInv /\ IdentityInv /\ CleanInv /\ SettledInv /\ StartsAgain /\ ModesInv
  BY <1>2, <1>3 DEF CertInit, HasChain, SgpInv, SaveInv, IdentityInv, CleanInv, SettledInv,
     StartsAgain, ModesInv, Names
<1>5. SgpOnlyInv /\ LegacyOnlyInv /\ FitInv
  BY <1>2, <1>3, Distinct DEF CertInit, SgpOnlyInv, LegacyOnlyInv, DiskChained, FitInv, Names, IsAbsent
<1> QED
  BY <1>1, <1>4, <1>5 DEF CertInv

-----------------------------------------------------------------------------
(* Saving *)

\* A write is to the head of the queue, and takes it off once both are done.
LEMMA SaveFacts ==
  ASSUME CertInv, phase = "saving", unsaved # <<>>
  PROVE  /\ Head(unsaved) \in Names
         /\ Pending(Head(unsaved))
         /\ Pending("euicc")
         /\ Pending("ci") => Pending("eum") /\ Head(unsaved) = "ci"
         /\ Pending("eum") => mode = "legacy" /\ Head(unsaved) # "euicc"
         /\ Head(unsaved) = "eum" => ~Pending("ci")
         /\ mode = "sgp26" => Head(unsaved) = "euicc" /\ unsaved = <<"euicc">>
         /\ mode # "sgp26" => mode = "legacy" /\ Own = Names
         /\ chain \in [Names -> Bundle]
         /\ identity = Nothing
         /\ mode \in modes
BY Queues DEF CertInv, CertificatesTypeOK, HasChain, SgpInv, IdentityInv, Pending, Among, Names, Modes, Own

LEMMA SaveKeepsInv ==
  ASSUME CertInv, Save
  PROVE  CertInv'
<1> DEFINE n == Head(unsaved)
<1>1. /\ phase = "saving" /\ unsaved # <<>>
      /\ phase' = phase /\ chain' = chain /\ identity' = identity /\ interrupted' = interrupted
      /\ mode' = mode /\ modes' = modes /\ overtaken' = overtaken /\ raised' = raised
      /\ next_key' = next_key /\ package' = package
      /\ key_saved' = ~key_saved
      /\ unsaved' = IF key_saved THEN Tail(unsaved) ELSE unsaved
  BY DEF Save, historyVars
<1>2. /\ n \in Names /\ Pending(n) /\ Pending("euicc")
      /\ Pending("ci") => Pending("eum") /\ n = "ci"
      /\ Pending("eum") => mode = "legacy" /\ n # "euicc"
      /\ n = "eum" => ~Pending("ci")
      /\ mode = "sgp26" => n = "euicc" /\ unsaved = <<"euicc">>
      /\ mode # "sgp26" => mode = "legacy" /\ Own = Names
      /\ chain \in [Names -> Bundle]
      /\ identity = Nothing /\ mode \in modes
  BY <1>1, SaveFacts
<1>3. /\ ~key_saved => /\ key_file' = [key_file EXCEPT ![n] = chain[n].key]
                       /\ cert_file' = cert_file
      /\ key_saved => /\ cert_file' = [cert_file EXCEPT ![n] = chain[n].certificate]
                      /\ key_file' = key_file
  BY DEF Save, Writes
<1>4. /\ key_file \in [Names -> Keys \union {Missing, Torn}]
      /\ cert_file \in [Names -> Certificate \union {Missing, Torn}]
      /\ chain[n].key \in Keys /\ chain[n].certificate \in Certificate
      /\ key_saved \in BOOLEAN
  BY <1>2 DEF CertInv, CertificatesTypeOK, Bundle
<1>5. /\ \A x \in Names : x # n => key_file'[x] = key_file[x] /\ cert_file'[x] = cert_file[x]
      /\ ~key_saved => key_file'[n] = chain[n].key /\ cert_file'[n] = cert_file[n]
      /\ key_saved => key_file'[n] = key_file[n] /\ cert_file'[n] = chain[n].certificate
  BY <1>2, <1>3, <1>4
<1>6. \A x \in Names : Pending(x)' <=> Pending(x) /\ ~(key_saved /\ x = n)
  <2>1. CASE ~key_saved
    BY <1>1, <2>1 DEF Pending, Among
  <2>2. CASE key_saved
    BY <1>1, <2>2, Queues DEF Pending, Among, CertInv, CertificatesTypeOK, Names
  <2> QED BY <1>4, <2>1, <2>2
<1>7. key_saved => key_file[n] = chain[n].key
  BY <1>1 DEF CertInv, SaveInv
<1>8. \A x \in Own : ~Pending(x) => IsSaved(x)
  BY <1>1 DEF CertInv, SaveInv
<1>9. \A x \in Names : IsSaved(x) => key_file[x] \in Keys /\ cert_file[x] \in Certificate
  BY <1>2 DEF IsSaved, Bundle
<1> HIDE DEF n
<1>a. CertificatesTypeOK'
  <2>1. unsaved' \in {<<>>, <<"euicc">>, <<"eum", "euicc">>, <<"ci", "eum", "euicc">>}
    BY <1>1, Queues DEF CertInv, CertificatesTypeOK
  <2>2. /\ key_file' \in [Names -> Keys \union {Missing, Torn}]
        /\ cert_file' \in [Names -> Certificate \union {Missing, Torn}]
    BY <1>3, <1>4
  <2> QED BY <1>1, <1>4, <2>1, <2>2 DEF CertInv, CertificatesTypeOK
<1>b. HasChain' /\ SgpInv'
  BY <1>1, <1>2, Queues DEF CertInv, HasChain, SgpInv
<1>c. SaveInv'
  <2>1. \A x \in Own' : ~Pending(x)' => IsSaved(x)'
    <3> SUFFICES ASSUME NEW x \in Own, ~Pending(x)' PROVE IsSaved(x)'
      BY <1>1 DEF Own
    <3>1. x \in Names
      BY DEF Own, Names
    <3> QED BY <1>1, <1>2, <1>5, <1>6, <1>7, <1>8, <3>1 DEF IsSaved
  <2>2. unsaved' # <<>> /\ key_saved' => key_file'[Head(unsaved')] = chain'[Head(unsaved')].key
    BY <1>1, <1>4, <1>5 DEF n
  <2> QED BY <2>1, <2>2 DEF SaveInv
<1>d. IdentityInv'
  BY <1>1, <1>2 DEF IdentityInv
<1>e. CleanInv'
  <2> SUFFICES ASSUME ~interrupted PROVE CleanInv'
    BY <1>1 DEF CleanInv
  <2>1. \A x \in Names : ~Pending(x)' => Loads(x)' \/ IsAbsent(x)'
    BY <1>2, <1>4, <1>5, <1>6, <1>7 DEF CertInv, CleanInv, Loads, IsAbsent
  <2>2. ASSUME ~Pending("eum")' PROVE IsAbsent("ci")' <=> IsAbsent("eum")'
    <3>1. CASE ~Pending("eum")
      <4>1. n # "ci" /\ n # "eum"
        BY <1>2, <3>1
      <4> QED BY <1>5, <3>1, <4>1 DEF CertInv, CleanInv, IsAbsent, Names
    <3>2. CASE Pending("eum")
      <4>1. n = "eum" /\ key_saved /\ ~Pending("ci") /\ "ci" \in Own
        BY <1>2, <1>6, <2>2, <3>2 DEF Names
      <4>2. key_file'["eum"] \in Keys /\ key_file'["ci"] \in Keys
        BY <1>4, <1>5, <1>7, <1>8, <1>9, <4>1 DEF Names
      <4> QED BY <4>2, Distinct DEF IsAbsent
    <3> QED BY <3>1, <3>2
  <2> QED BY <1>1, <2>1, <2>2 DEF CleanInv
<1>f. SgpOnlyInv'
  <2> SUFFICES ASSUME "legacy" \notin modes PROVE SgpOnlyInv'
    BY <1>1 DEF SgpOnlyInv
  <2>1. mode = "sgp26" /\ n = "euicc"
    BY <1>2 DEF Modes
  <2>2. IsAbsent("ci")' /\ IsAbsent("eum")'
    BY <1>5, <2>1 DEF CertInv, SgpOnlyInv, IsAbsent, Names
  <2>3. chain["euicc"].certificate.issuer = SgpEum
    BY <1>1, <2>1 DEF CertInv, SgpInv
  <2>4. cert_file["euicc"] \notin Certificate
    BY <1>2 DEF CertInv, SgpOnlyInv
  <2>5. CASE key_saved
    BY <1>2, <1>4, <1>5, <1>6, <1>7, <2>1, <2>2, <2>3, <2>5 DEF SgpOnlyInv
  <2>6. CASE ~key_saved
    BY <1>5, <2>1, <2>2, <2>4, <2>6 DEF SgpOnlyInv
  <2> QED BY <2>5, <2>6
<1>g. LegacyOnlyInv'
  <2> SUFFICES ASSUME "sgp26" \notin modes PROVE LegacyOnlyInv'
    BY <1>1 DEF LegacyOnlyInv
  <2>1. mode = "legacy" /\ Own = Names
    BY <1>2
  <2>2. Chained /\ Chained'
    BY <1>1 DEF CertInv, LegacyOnlyInv, Chained
  <2>3. \A x \in Names : Pending(x) => cert_file[x] = Missing
    BY <2>1 DEF CertInv, LegacyOnlyInv
  <2>4. \A x \in Names : Loads(x)' => /\ key_file'[x] = chain[x].key
                                      /\ cert_file'[x] = chain[x].certificate
    <3> SUFFICES ASSUME NEW x \in Names, Loads(x)' PROVE key_file'[x] = chain[x].key /\ cert_file'[x] = chain[x].certificate
      OBVIOUS
    <3>1. CASE x = n
      BY <1>2, <1>5, <1>7, <2>3, <3>1, Distinct DEF Loads
    <3>2. CASE x # n
      BY <1>5, <1>8, <2>1, <2>3, <3>2, Distinct DEF Loads, IsSaved
    <3> QED BY <3>1, <3>2
  <2>5. DiskChained'
    BY <2>2, <2>4 DEF DiskChained, Chained, Names
  <2>6. ASSUME NEW x \in Names, key_file'[x] = Missing \/ Pending(x)' PROVE cert_file'[x] = Missing
    <3>1. CASE x = n
      BY <1>2, <1>4, <1>5, <1>6, <1>7, <2>3, <2>6, <3>1, Distinct
    <3>2. CASE x # n
      BY <1>5, <1>6, <2>6, <3>2 DEF CertInv, LegacyOnlyInv
    <3> QED BY <3>1, <3>2
  <2>7. ASSUME key_file'["ci"] = Missing PROVE \A x \in Names : IsAbsent(x)'
    <3>1. "ci" \in Names
      BY DEF Names
    <3>2. n # "ci"
      BY <1>4, <1>5, <1>7, <2>7, Distinct
    <3>3. ~Pending("ci")
      BY <1>2, <3>2
    <3>4. key_file["ci"] \in Keys /\ key_file'["ci"] = key_file["ci"]
      BY <1>5, <1>8, <1>9, <2>1, <3>1, <3>2, <3>3
    <3> QED BY <2>7, <3>4, Distinct
  <2> QED BY <1>1, <2>2, <2>5, <2>6, <2>7 DEF LegacyOnlyInv
<1>h. SettledInv'
  BY <1>1 DEF CertInv, SettledInv, Chained
<1>i. FitInv'
  <2> SUFFICES ASSUME modes # Modes \/ ~interrupted PROVE FitInv'
    BY <1>1 DEF FitInv
  <2>1. KeysFit /\ KeysFit'
    BY <1>1 DEF CertInv, FitInv, KeysFit
  <2>2. ASSUME NEW x \in Names, Loads(x)', ~Pending(x)' PROVE cert_file'[x].subject = key_file'[x]
    <3>1. CASE x = n
      BY <1>2, <1>5, <1>6, <1>7, <2>1, <2>2, <3>1 DEF KeysFit
    <3>2. CASE x # n
      BY <1>5, <1>6, <2>2, <3>2 DEF CertInv, FitInv, Loads
    <3> QED BY <3>1, <3>2
  <2> QED BY <2>1, <2>2 DEF FitInv
<1>j. StartsAgain' /\ ModesInv'
  BY <1>1 DEF CertInv, StartsAgain, ModesInv
<1> QED
  BY <1>a, <1>b, <1>c, <1>d, <1>e, <1>f, <1>g, <1>h, <1>i, <1>j DEF CertInv

LEMMA CrashKeepsInv ==
  ASSUME CertInv, Crash
  PROVE  CertInv'
<1> DEFINE n == Head(unsaved)
<1>1. /\ phase = "saving" /\ unsaved # <<>> /\ phase' = "down" /\ chain' = Nothing
      /\ unsaved' = <<>> /\ key_saved' = FALSE /\ interrupted' = TRUE
      /\ identity' = identity /\ mode' = mode /\ modes' = modes /\ overtaken' = overtaken
      /\ raised' = raised /\ next_key' = next_key /\ package' = package
  BY DEF Crash, historyVars
<1>2. /\ n \in Names /\ Pending(n) /\ Pending("euicc")
      /\ Pending("ci") => Pending("eum") /\ n = "ci"
      /\ Pending("eum") => mode = "legacy" /\ n # "euicc"
      /\ mode = "sgp26" => n = "euicc" /\ unsaved = <<"euicc">>
      /\ mode # "sgp26" => mode = "legacy" /\ Own = Names
      /\ chain \in [Names -> Bundle]
      /\ identity = Nothing /\ mode \in modes
  BY <1>1, SaveFacts
<1>3. \/ key_file' = key_file /\ cert_file' = cert_file
      \/ ~key_saved /\ key_file' = [key_file EXCEPT ![n] = Torn] /\ cert_file' = cert_file
      \/ key_saved /\ cert_file' = [cert_file EXCEPT ![n] = Torn] /\ key_file' = key_file
  BY DEF Crash, Writes, fileVars
<1>4. /\ key_file \in [Names -> Keys \union {Missing, Torn}]
      /\ cert_file \in [Names -> Certificate \union {Missing, Torn}]
      /\ chain[n].key \in Keys
  BY <1>2 DEF CertInv, CertificatesTypeOK, Bundle
<1>5. /\ \A x \in Names : x # n => key_file'[x] = key_file[x] /\ cert_file'[x] = cert_file[x]
      /\ key_file'[n] \in {key_file[n], Torn} /\ cert_file'[n] \in {cert_file[n], Torn}
      /\ cert_file'[n] # cert_file[n] => key_saved /\ key_file'[n] = key_file[n]
  BY <1>2, <1>3, <1>4
<1>6. /\ \A x \in Names : Loads(x)' => Loads(x) /\ key_file'[x] = key_file[x] /\ cert_file'[x] = cert_file[x]
      /\ \A x : ~Pending(x)'
  BY <1>1, <1>5, Distinct DEF Loads, Pending
<1>7. key_saved => key_file[n] = chain[n].key
  BY <1>1 DEF CertInv, SaveInv
<1> HIDE DEF n
<1>a. CertificatesTypeOK'
  <2>1. /\ key_file' \in [Names -> Keys \union {Missing, Torn}]
        /\ cert_file' \in [Names -> Certificate \union {Missing, Torn}]
    BY <1>3, <1>4
  <2> QED BY <1>1, <2>1 DEF CertInv, CertificatesTypeOK
<1>b. HasChain' /\ SgpInv' /\ SaveInv' /\ IdentityInv' /\ CleanInv' /\ SettledInv'
  BY <1>1, <1>2 DEF HasChain, SgpInv, SaveInv, IdentityInv, CleanInv, SettledInv
<1>c. SgpOnlyInv'
  <2> SUFFICES ASSUME "legacy" \notin modes PROVE SgpOnlyInv'
    BY <1>1 DEF SgpOnlyInv
  <2>1. n = "euicc"
    BY <1>2
  <2>2. IsAbsent("ci")' /\ IsAbsent("eum")'
    BY <1>5, <2>1 DEF CertInv, SgpOnlyInv, IsAbsent, Names
  <2>3. cert_file'["euicc"] \notin Certificate
    BY <1>2, <1>5, <2>1, Distinct DEF CertInv, SgpOnlyInv
  <2> QED BY <1>6, <2>2, <2>3 DEF SgpOnlyInv
<1>d. LegacyOnlyInv'
  <2> SUFFICES ASSUME "sgp26" \notin modes PROVE LegacyOnlyInv'
    BY <1>1 DEF LegacyOnlyInv
  <2>1. DiskChained'
    BY <1>6 DEF CertInv, LegacyOnlyInv, DiskChained, Names
  <2>2. ASSUME NEW x \in Names, key_file'[x] = Missing PROVE cert_file'[x] = Missing
    <3>1. CASE x = n
      BY <1>2, <1>4, <1>5, <1>7, <2>2, <3>1, Distinct DEF CertInv, LegacyOnlyInv
    <3>2. CASE x # n
      BY <1>5, <2>2, <3>2 DEF CertInv, LegacyOnlyInv
    <3> QED BY <3>1, <3>2
  <2>3. ASSUME key_file'["ci"] = Missing PROVE \A x \in Names : IsAbsent(x)'
    <3>1. "ci" \in Names
      BY DEF Names
    <3>2. key_file["ci"] = Missing
      BY <1>5, <2>3, <3>1, Distinct
    <3>3. \A x \in Names : IsAbsent(x)
      BY <3>2 DEF CertInv, LegacyOnlyInv
    <3>4. n = "ci"
      <4> SUFFICES ASSUME ~Pending("ci") PROVE FALSE
        BY <1>2
      <4>1. IsSaved("ci")
        BY <1>1, <1>2, <3>1 DEF CertInv, SaveInv
      <4> QED BY <1>2, <3>1, <3>2, <4>1, Distinct DEF IsSaved, Bundle
    <3>5. key_file'[n] = Missing /\ cert_file'[n] = Missing
      BY <2>2, <2>3, <3>1, <3>4
    <3> QED BY <1>5, <3>3, <3>5 DEF IsAbsent
  <2> QED BY <1>1, <1>6, <2>1, <2>2, <2>3 DEF LegacyOnlyInv
<1>e. FitInv'
  <2> SUFFICES ASSUME modes # Modes PROVE FitInv'
    BY <1>1 DEF FitInv
  <2>1. "legacy" \notin modes \/ "sgp26" \notin modes
    BY DEF CertInv, CertificatesTypeOK, Modes
  <2>2. \A x \in Names : Pending(x) => ~Loads(x)
    <3>1. CASE "legacy" \notin modes
      <4>1. \A x \in Names : Pending(x) => x = "euicc"
        BY <1>2, <3>1 DEF Names
      <4> QED BY <1>2, <3>1, <4>1 DEF CertInv, SgpOnlyInv, Loads
    <3>2. CASE "sgp26" \notin modes
      BY <3>2, Distinct DEF CertInv, LegacyOnlyInv, Loads
    <3> QED BY <2>1, <3>1, <3>2
  <2> QED BY <1>1, <1>6, <2>2 DEF CertInv, FitInv
<1>f. StartsAgain' /\ ModesInv'
  BY <1>1 DEF CertInv, StartsAgain, ModesInv
<1> QED
  BY <1>a, <1>b, <1>c, <1>d, <1>e, <1>f DEF CertInv

-----------------------------------------------------------------------------
(* Between two starts *)

LEMMA ReadyKeepsInv ==
  ASSUME CertInv, Ready
  PROVE  CertInv'
<1>1. /\ phase = "saving" /\ unsaved = <<>> /\ phase' = "ready" /\ identity' = chain["euicc"]
      /\ package' = package /\ key_file' = key_file /\ cert_file' = cert_file /\ chain' = chain
      /\ unsaved' = unsaved /\ key_saved' = key_saved /\ next_key' = next_key /\ raised' = raised
      /\ mode' = mode /\ modes' = modes /\ overtaken' = overtaken /\ interrupted' = interrupted
  BY DEF Ready, historyVars, fileVars
<1>2. \A n \in Names : ~Pending(n) /\ ~Pending(n)'
  BY <1>1, Queues DEF Pending, Among
<1>3. /\ chain \in [Names -> Bundle] /\ mode \in modes
      /\ \A n \in Names : chain[n].key \in Keys /\ chain[n].certificate \in Certificate
  BY <1>1 DEF CertInv, HasChain, Bundle
<1>4. /\ \A n \in Own : key_file[n] = chain[n].key /\ cert_file[n] = chain[n].certificate
      /\ "euicc" \in Own
      /\ mode # "sgp26" => Own = Names
  BY <1>1, <1>2 DEF CertInv, SaveInv, IsSaved, Own, Names
<1>5. chain["euicc"] = OnDisk("euicc")
  BY <1>3, <1>4 DEF OnDisk, Bundle, Names
<1>6. mode # "sgp26" => /\ \A n \in Names : Loads(n)
                        /\ Chained => DiskChained
  BY <1>3, <1>4 DEF Loads, Chained, DiskChained, Names
<1>a. CertificatesTypeOK' /\ HasChain' /\ SgpInv' /\ SaveInv'
  BY <1>1, <1>3 DEF CertInv, CertificatesTypeOK, HasChain, SgpInv, SaveInv, Names
<1>b. IdentityInv'
  BY <1>1, <1>5, <1>6 DEF CertInv, SgpInv, IdentityInv, OnDisk, Loads, Names
<1>c. CleanInv' /\ SgpOnlyInv'
  BY <1>1, <1>2 DEF CertInv, CleanInv, SgpOnlyInv, Loads, IsAbsent, Names
<1>d. LegacyOnlyInv'
  BY <1>1, <1>2 DEF CertInv, LegacyOnlyInv, DiskChained, Chained, Loads, IsAbsent
<1>e. SettledInv'
  BY <1>1, <1>6 DEF CertInv, SettledInv, DiskChained, Chained, Loads
<1>f. FitInv'
  BY <1>1, <1>2 DEF CertInv, FitInv, KeysFit, Loads
<1>g. StartsAgain' /\ ModesInv'
  BY <1>1 DEF CertInv, StartsAgain, ModesInv
<1> QED
  BY <1>a, <1>b, <1>c, <1>d, <1>e, <1>f, <1>g DEF CertInv

LEMMA StopKeepsInv ==
  ASSUME CertInv, Stop
  PROVE  CertInv'
<1>1. /\ phase = "ready" /\ phase' = "down" /\ identity' = identity /\ chain' = Nothing
      /\ package' = package /\ key_file' = key_file /\ cert_file' = cert_file
      /\ unsaved' = unsaved /\ key_saved' = key_saved /\ next_key' = next_key /\ raised' = raised
      /\ mode' = mode /\ modes' = modes /\ overtaken' = overtaken /\ interrupted' = interrupted
  BY DEF Stop, historyVars, fileVars
<1>2. \A n \in Names : ~Pending(n) /\ ~Pending(n)'
  BY <1>1 DEF Pending
<1>a. CertificatesTypeOK' /\ HasChain' /\ SgpInv' /\ SaveInv'
  BY <1>1 DEF CertInv, CertificatesTypeOK, HasChain, SgpInv, SaveInv
<1>b. IdentityInv' /\ CleanInv' /\ SgpOnlyInv'
  BY <1>1, <1>2 DEF CertInv, IdentityInv, OnDisk, CleanInv, SgpOnlyInv, Loads, IsAbsent, Names
<1>c. LegacyOnlyInv'
  BY <1>1, <1>2 DEF CertInv, LegacyOnlyInv, DiskChained, Loads, IsAbsent
<1>d. SettledInv' /\ FitInv'
  BY <1>1, <1>2 DEF CertInv, SettledInv, DiskChained, FitInv, Loads
<1>e. StartsAgain' /\ ModesInv'
  BY <1>1 DEF CertInv, StartsAgain, ModesInv
<1> QED
  BY <1>a, <1>b, <1>c, <1>d, <1>e DEF CertInv

\* SwitchPackage, and steps that change nothing
LEMMA SameFilesKeepInv ==
  ASSUME CertInv, package' \in BOOLEAN,
         UNCHANGED <<phase, fileVars, chain, unsaved, key_saved, next_key, raised, historyVars,
                     interrupted, identity>>
  PROVE  CertInv'
<1>1. /\ phase' = phase /\ identity' = identity /\ chain' = chain
      /\ key_file' = key_file /\ cert_file' = cert_file
      /\ unsaved' = unsaved /\ key_saved' = key_saved /\ next_key' = next_key /\ raised' = raised
      /\ mode' = mode /\ modes' = modes /\ overtaken' = overtaken /\ interrupted' = interrupted
  BY DEF historyVars, fileVars
<1>2. \A n : Pending(n)' <=> Pending(n)
  BY <1>1 DEF Pending
<1>a. CertificatesTypeOK' /\ HasChain' /\ SgpInv' /\ SaveInv'
  BY <1>1, <1>2 DEF CertInv, CertificatesTypeOK, HasChain, SgpInv, SaveInv, IsSaved, Own
<1>b. IdentityInv' /\ CleanInv' /\ SgpOnlyInv'
  BY <1>1, <1>2 DEF CertInv, IdentityInv, OnDisk, CleanInv, SgpOnlyInv, Loads, IsAbsent
<1>c. LegacyOnlyInv'
  BY <1>1, <1>2 DEF CertInv, LegacyOnlyInv, DiskChained, Chained, Loads, IsAbsent
<1>d. SettledInv' /\ FitInv'
  BY <1>1, <1>2 DEF CertInv, SettledInv, DiskChained, Chained, FitInv, KeysFit, Loads
<1>e. StartsAgain' /\ ModesInv'
  BY <1>1 DEF CertInv, StartsAgain, ModesInv
<1> QED
  BY <1>a, <1>b, <1>c, <1>d, <1>e DEF CertInv

-----------------------------------------------------------------------------
(* Starts *)

LEMMA EnterFacts ==
  ASSUME CertInv, NEW m \in Modes, Enter(m)
  PROVE  /\ phase = "down" /\ mode' = m /\ modes' = modes \union {m}
         /\ m = "sgp26" /\ "legacy" \in modes => overtaken'
         /\ overtaken => overtaken'
         /\ overtaken' \in BOOLEAN /\ modes' \subseteq Modes
         /\ modes' # Modes => modes # Modes
         /\ identity' # Nothing => identity' = identity /\ identity # Nothing /\ mode = m
         /\ identity' \in Bundle \union {Nothing}
         /\ key_file' = key_file /\ cert_file' = cert_file /\ interrupted' = interrupted
         /\ package' = package
         /\ \A n \in Names : ~Pending(n)
BY DEF CertInv, CertificatesTypeOK, Enter, fileVars, Pending

\* What a start puts in memory and leaves to be saved, so that it may go on.
LEMMA StartKeepsInv ==
  ASSUME CertInv, NEW m \in Modes, Enter(m),
         phase' = "saving", raised' = FALSE, key_saved' = FALSE, next_key' \in 3..(MaxKey + 1),
         chain' \in [Names -> Bundle], unsaved' \in Queue,
         m = "sgp26" => /\ chain' = SgpChain(chain'["euicc"])
                        /\ chain'["euicc"].certificate.issuer = SgpEum
                        /\ unsaved' \in {<<>>, <<"euicc">>},
         \A n \in Names : (m = "legacy" \/ n = "euicc") /\ ~Among(n, unsaved')
                            => chain'[n] = OnDisk(n),
         identity' # Nothing => unsaved' = <<>>,
         "legacy" \notin modes' /\ unsaved' # <<>> => cert_file["euicc"] \notin Certificate,
         "sgp26" \notin modes' => \A n \in Names : Among(n, unsaved') => cert_file[n] = Missing,
         "sgp26" \notin modes' => Chained',
         m = "legacy" /\ ~overtaken' /\ ~interrupted => Chained',
         modes' # Modes \/ ~interrupted => KeysFit'
  PROVE  CertInv'
<1>1. /\ phase = "down" /\ mode' = m /\ modes' = modes \union {m}
      /\ m = "sgp26" /\ "legacy" \in modes => overtaken'
      /\ overtaken => overtaken'
      /\ overtaken' \in BOOLEAN /\ modes' \subseteq Modes
      /\ modes' # Modes => modes # Modes
      /\ identity' # Nothing => identity' = identity /\ identity # Nothing /\ mode = m
      /\ identity' \in Bundle \union {Nothing}
      /\ key_file' = key_file /\ cert_file' = cert_file /\ interrupted' = interrupted
      /\ package' = package
      /\ \A n \in Names : ~Pending(n)
  BY EnterFacts
<1>2. \A n : Pending(n)' <=> Among(n, unsaved')
  BY DEF Pending
<1>3. \A n \in Names : chain'[n] = OnDisk(n) => IsSaved(n)'
  BY <1>1 DEF IsSaved, OnDisk
<1>a. CertificatesTypeOK'
  BY <1>1 DEF CertInv, CertificatesTypeOK, Queue
<1>b. HasChain' /\ SgpInv'
  BY <1>1 DEF HasChain, SgpInv
<1>c. SaveInv'
  <2>1. \A n \in Own' : n \in Names /\ (m = "legacy" \/ n = "euicc")
    BY <1>1 DEF Own, Names, Modes
  <2> QED BY <1>2, <1>3, <2>1 DEF SaveInv
<1>d. IdentityInv'
  <2> SUFFICES ASSUME identity' # Nothing PROVE IdentityInv'
    BY DEF IdentityInv
  <2>1. chain'["euicc"] = OnDisk("euicc")
    BY DEF Among, Names
  <2> QED BY <1>1, <2>1 DEF CertInv, IdentityInv, OnDisk, Loads
<1>e. CleanInv'
  BY <1>1 DEF CertInv, CleanInv, Loads, IsAbsent, Names
<1>f. SgpOnlyInv'
  BY <1>1, <1>2, Queues DEF CertInv, SgpOnlyInv, IsAbsent, Among
<1>g. LegacyOnlyInv'
  BY <1>1, <1>2 DEF CertInv, LegacyOnlyInv, DiskChained, Loads, IsAbsent
<1>h. SettledInv'
  BY <1>1 DEF SettledInv, Modes
<1>i. FitInv'
  BY <1>1 DEF CertInv, FitInv, Loads
<1>j. StartsAgain' /\ ModesInv'
  BY <1>1 DEF StartsAgain, ModesInv, Modes
<1> QED
  BY <1>a, <1>b, <1>c, <1>d, <1>e, <1>f, <1>g, <1>h, <1>i, <1>j DEF CertInv

\* A start that raises, after a cut save and some legacy start
LEMMA RaiseKeepsInv ==
  ASSUME CertInv, NEW m \in Modes, Enter(m), Raise, interrupted, "legacy" \in modes'
  PROVE  CertInv'
<1>1. /\ phase = "down" /\ mode' = m /\ modes' = modes \union {m}
      /\ overtaken' \in BOOLEAN /\ modes' \subseteq Modes
      /\ modes' # Modes => modes # Modes
      /\ identity' # Nothing => identity' = identity /\ identity # Nothing /\ mode = m
      /\ identity' \in Bundle \union {Nothing}
      /\ key_file' = key_file /\ cert_file' = cert_file /\ interrupted' = interrupted
      /\ package' = package
      /\ \A n \in Names : ~Pending(n)
  BY EnterFacts
<1>2. /\ raised' = TRUE /\ phase' = phase /\ chain' = chain /\ unsaved' = unsaved
      /\ key_saved' = key_saved /\ next_key' = next_key
  BY DEF Raise
<1>3. \A n \in Names : ~Pending(n)'
  BY <1>1, <1>2 DEF Pending
<1>a. CertificatesTypeOK' /\ HasChain' /\ SgpInv' /\ SaveInv'
  BY <1>1, <1>2 DEF CertInv, CertificatesTypeOK, HasChain, SgpInv, SaveInv
<1>b. IdentityInv' /\ CleanInv' /\ SgpOnlyInv' /\ SettledInv'
  BY <1>1, <1>2 DEF CertInv, IdentityInv, OnDisk, CleanInv, SgpOnlyInv, SettledInv, Loads
<1>c. LegacyOnlyInv'
  BY <1>1, <1>2, <1>3 DEF CertInv, LegacyOnlyInv, DiskChained, Loads, IsAbsent
<1>d. FitInv'
  BY <1>1, <1>2, <1>3 DEF CertInv, FitInv, Loads
<1>e. StartsAgain' /\ ModesInv'
  BY <1>1, <1>2 DEF StartsAgain, ModesInv, Modes
<1> QED
  BY <1>a, <1>b, <1>c, <1>d, <1>e DEF CertInv

\* Whatever loads is a bundle, and fits where files fit.
LEMMA DiskFacts ==
  ASSUME CertInv, phase = "down"
  PROVE  /\ \A n \in Names : Loads(n) => OnDisk(n) \in Bundle
         /\ modes # Modes \/ ~interrupted =>
              \A n \in Names : Loads(n) => cert_file[n].subject = key_file[n]
         /\ identity # Nothing => Loads("euicc")
         /\ next_key \in 3..(MaxKey + 1)
<1>1. \A n \in Names : Loads(n) => OnDisk(n) \in Bundle
  BY DEF Loads, OnDisk, Bundle
<1>2. \A n \in Names : ~Pending(n)
  BY DEF Pending
<1>3. identity # Nothing => Loads("euicc")
  BY DEF CertInv, CertificatesTypeOK, IdentityInv, OnDisk, Bundle, Loads
<1> QED BY <1>1, <1>2, <1>3 DEF CertInv, CertificatesTypeOK, FitInv

LEMMA SgpChainFacts ==
  ASSUME NEW euicc \in Bundle
  PROVE  /\ SgpChain(euicc) \in [Names -> Bundle]
         /\ SgpChain(euicc)["euicc"] = euicc
         /\ \A n \in {"ci", "eum"} :
              SgpChain(euicc)[n].certificate.subject = SgpChain(euicc)[n].key
<1>1. Issued(SgpCi, SgpCi) \in Bundle /\ Issued(SgpEum, SgpCi) \in Bundle
  BY Distinct DEF Issued, Bundle, Certificate
<1> QED BY <1>1 DEF SgpChain, Names, Issued

LEMMA StartSgpKeepsInv ==
  ASSUME CertInv, StartSgp
  PROVE  CertInv'
<1>1. Enter("sgp26") /\ "sgp26" \in Modes
  BY DEF StartSgp, Modes
<1>2. /\ phase = "down" /\ mode' = "sgp26" /\ modes' = modes \union {"sgp26"}
      /\ modes' # Modes => modes # Modes
      /\ identity' # Nothing => identity' = identity /\ identity # Nothing /\ mode = "sgp26"
  BY <1>1, EnterFacts
<1>3. "euicc" \in Names
  BY DEF Names
<1>4. CASE key_file["euicc"] # Missing /\ ChainsToEum /\ Loads("euicc")
           /\ Install(SgpChain(OnDisk("euicc")), <<>>)
  <2>1. /\ OnDisk("euicc") \in Bundle
        /\ modes # Modes \/ ~interrupted => OnDisk("euicc").certificate.subject = OnDisk("euicc").key
        /\ OnDisk("euicc").certificate.issuer = SgpEum
    BY <1>2, <1>3, <1>4, DiskFacts DEF OnDisk, ChainsToEum
  <2>2. /\ chain' = SgpChain(OnDisk("euicc")) /\ unsaved' = <<>> /\ key_saved' = FALSE
        /\ raised' = FALSE /\ phase' = "saving" /\ next_key' = next_key
    BY <1>2, <1>4, DiskFacts, Queues DEF Install
  <2>3. /\ chain' \in [Names -> Bundle] /\ chain'["euicc"] = OnDisk("euicc")
        /\ modes' # Modes \/ ~interrupted => KeysFit'
    BY <1>2, <2>1, <2>2, SgpChainFacts DEF KeysFit, Names
  <2> QED BY <1>1, <1>2, <2>1, <2>2, <2>3, StartKeepsInv, DiskFacts DEF Queue
<1>5. CASE key_file["euicc"] # Missing /\ ChainsToEum /\ ~Loads("euicc") /\ Raise
  <2>1. cert_file["euicc"] \in Certificate /\ key_file["euicc"] \notin Keys
    BY <1>5 DEF ChainsToEum, Loads
  <2>2. "legacy" \in modes
    BY <2>1 DEF CertInv, SgpOnlyInv
  <2>3. interrupted
    BY <1>2, <1>3, <1>5 DEF CertInv, CleanInv, IsAbsent, Pending
  <2> QED BY <1>1, <1>2, <1>5, <2>2, <2>3, RaiseKeepsInv
<1>6. CASE ~(key_file["euicc"] # Missing /\ ChainsToEum)
           /\ Install(SgpChain(Issued(next_key, SgpEum)), <<"euicc">>)
  <2>1. /\ chain' = SgpChain(Issued(next_key, SgpEum)) /\ unsaved' = <<"euicc">>
        /\ key_saved' = FALSE /\ raised' = FALSE /\ phase' = "saving"
        /\ next_key' = next_key + 1 /\ next_key' <= MaxKey + 1
    BY <1>6, Queues DEF Install
  <2>2. next_key \in Keys /\ next_key' \in 3..(MaxKey + 1)
    BY <1>2, <2>1, DiskFacts, MaxKeyAssumption DEF Keys
  <2>3. Issued(next_key, SgpEum) \in Bundle
    BY <2>2, Distinct DEF Issued, Bundle, Certificate
  <2>4. /\ chain' \in [Names -> Bundle] /\ chain'["euicc"] = Issued(next_key, SgpEum)
        /\ KeysFit'
    BY <2>1, <2>3, SgpChainFacts DEF KeysFit, Names, Issued
  <2>5. chain'["euicc"].certificate.issuer = SgpEum
    BY <2>4 DEF Issued
  <2>6. identity' = Nothing
    <3> SUFFICES ASSUME identity' # Nothing PROVE FALSE
      OBVIOUS
    <3>1. identity = OnDisk("euicc") /\ identity.certificate.issuer = SgpEum /\ Loads("euicc")
      BY <1>2, DiskFacts DEF CertInv, IdentityInv
    <3> QED BY <1>6, <3>1, Distinct DEF OnDisk, Loads, ChainsToEum
  <2>7. "legacy" \notin modes' => cert_file["euicc"] \notin Certificate
    BY <1>2, <1>6, Distinct DEF CertInv, SgpOnlyInv, ChainsToEum
  <2>8. Among("euicc", unsaved')
    BY <2>1, Queues DEF Among
  <2> QED BY <1>1, <1>2, <2>1, <2>2, <2>4, <2>5, <2>6, <2>7, <2>8, StartKeepsInv DEF Queue
<1> QED
  BY <1>4, <1>5, <1>6 DEF StartSgp

\* Files that only legacy starts wrote, or that no SGP.26 start came after.
LEMMA LegacyDisk ==
  ASSUME CertInv, phase = "down", Loads("ci"),
         "sgp26" \notin modes \/ (~overtaken /\ ~interrupted)
  PROVE  DiskChained
<1>1. CASE "sgp26" \notin modes
  BY <1>1 DEF CertInv, LegacyOnlyInv
<1>2. CASE ~overtaken /\ ~interrupted
  <2>1. "legacy" \in modes
    BY Distinct DEF CertInv, SgpOnlyInv, IsAbsent, Loads
  <2> QED BY <1>2, <2>1 DEF CertInv, SettledInv
<1> QED BY <1>1, <1>2

LEMMA StartLegacyKeepsInv ==
  ASSUME CertInv, StartLegacy
  PROVE  CertInv'
<1>1. Enter("legacy") /\ "legacy" \in Modes
  BY DEF StartLegacy, Modes
<1>2. /\ phase = "down" /\ mode' = "legacy" /\ modes' = modes \union {"legacy"}
      /\ overtaken => overtaken'
      /\ modes' # Modes => modes # Modes
      /\ identity' # Nothing => identity' = identity /\ identity # Nothing /\ mode = "legacy"
      /\ \A n \in Names : ~Pending(n)
  BY <1>1, EnterFacts
<1>3. "ci" \in Names /\ "eum" \in Names /\ "euicc" \in Names
  BY DEF Names
<1>4. CASE /\ \A n \in Names : Loads(n)
           /\ Install([n \in Names |-> OnDisk(n)], <<>>)
  <2>1. /\ chain' = [n \in Names |-> OnDisk(n)] /\ unsaved' = <<>> /\ key_saved' = FALSE
        /\ raised' = FALSE /\ phase' = "saving" /\ next_key' = next_key
    BY <1>2, <1>4, DiskFacts, Queues DEF Install
  <2>2. \A n \in Names : chain'[n] = OnDisk(n) /\ OnDisk(n) \in Bundle
    BY <1>2, <1>4, <2>1, DiskFacts
  <2>3. chain' \in [Names -> Bundle]
    BY <2>1, <2>2
  <2>4. modes' # Modes \/ ~interrupted => KeysFit'
    BY <1>2, <1>4, <2>2, DiskFacts DEF KeysFit, OnDisk
  <2>5. "sgp26" \notin modes' \/ (~overtaken' /\ ~interrupted) => Chained'
    <3>1. DiskChained => Chained'
      BY <1>3, <1>4, <2>2 DEF DiskChained, Chained, OnDisk
    <3> QED BY <1>2, <1>3, <1>4, <3>1, LegacyDisk
  <2>6. \A n \in Names : ~Among(n, unsaved')
    BY <2>1, Queues DEF Among
  <2> QED BY <1>1, <1>2, <2>1, <2>2, <2>3, <2>4, <2>5, <2>6, StartKeepsInv, DiskFacts DEF Queue
<1>5. CASE /\ Loads("ci") /\ Loads("eum") /\ key_file["euicc"] = Missing
           /\ Install([n \in Names |-> IF n = "euicc" THEN Issued(next_key, key_file["eum"])
                                       ELSE OnDisk(n)],
                      <<"euicc">>)
  <2>1. /\ chain' = [n \in Names |-> IF n = "euicc" THEN Issued(next_key, key_file["eum"])
                                     ELSE OnDisk(n)]
        /\ unsaved' = <<"euicc">>
        /\ key_saved' = FALSE /\ raised' = FALSE /\ phase' = "saving"
        /\ next_key' = next_key + 1 /\ next_key' <= MaxKey + 1
    BY <1>5, Queues DEF Install
  <2>2. next_key \in Keys /\ next_key' \in 3..(MaxKey + 1)
    BY <1>2, <2>1, DiskFacts, MaxKeyAssumption DEF Keys
  <2>3. Issued(next_key, key_file["eum"]) \in Bundle
    BY <1>5, <2>2 DEF Issued, Bundle, Certificate, Loads
  <2>4. /\ chain'["ci"] = OnDisk("ci") /\ OnDisk("ci") \in Bundle
        /\ chain'["eum"] = OnDisk("eum") /\ OnDisk("eum") \in Bundle
        /\ chain'["euicc"] = Issued(next_key, key_file["eum"])
    BY <1>2, <1>3, <1>5, <2>1, DiskFacts
  <2>5. chain' \in [Names -> Bundle]
    <3>1. \A n \in Names : (IF n = "euicc" THEN Issued(next_key, key_file["eum"]) ELSE OnDisk(n)) \in Bundle
      BY <2>3, <2>4 DEF Names
    <3> QED BY <2>1, <3>1
  <2>6. modes' # Modes \/ ~interrupted => KeysFit'
    BY <1>2, <1>3, <1>5, <2>4, DiskFacts DEF KeysFit, OnDisk, Names, Issued
  <2>7. "sgp26" \notin modes' \/ (~overtaken' /\ ~interrupted) => Chained'
    <3>1. DiskChained => Chained'
      BY <1>5, <2>4 DEF DiskChained, Chained, OnDisk, Issued
    <3> QED BY <1>2, <1>5, <3>1, LegacyDisk
  <2>8. \A n \in Names : Among(n, unsaved') <=> n = "euicc"
    BY <2>1, Queues DEF Among
  <2>9. identity' = Nothing
    BY <1>2, <1>5, DiskFacts, Distinct DEF Loads
  <2>10. "sgp26" \notin modes' => cert_file["euicc"] = Missing
    BY <1>2, <1>3, <1>5 DEF CertInv, LegacyOnlyInv
  <2>11. \A n \in Names : ~Among(n, unsaved') => chain'[n] = OnDisk(n)
    BY <2>4, <2>8 DEF Names
  <2> QED BY <1>1, <1>2, <2>1, <2>2, <2>5, <2>6, <2>7, <2>8, <2>9, <2>10, <2>11, StartKeepsInv DEF Queue
<1>6. CASE /\ key_file["ci"] # Missing
           /\ ~Loads("ci") \/ ~Loads("eum") \/ (key_file["euicc"] # Missing /\ ~Loads("euicc"))
           /\ Raise
  <2>1. interrupted
    <3> SUFFICES ASSUME ~interrupted PROVE FALSE
      OBVIOUS
    <3>1. /\ \A n \in Names : Loads(n) \/ IsAbsent(n)
          /\ IsAbsent("ci") <=> IsAbsent("eum")
      BY <1>2, <1>3 DEF CertInv, CleanInv
    <3> QED BY <1>3, <1>6, <3>1 DEF IsAbsent
  <2> QED BY <1>1, <1>2, <1>6, <2>1, RaiseKeepsInv
<1>7. CASE key_file["ci"] = Missing /\ GenerateFullChain
  <2>1. /\ chain' = [n \in Names |-> CASE n = "ci" -> Issued(next_key, next_key)
                                       [] n = "eum" -> Issued(next_key + 1, next_key)
                                       [] n = "euicc" -> Issued(next_key + 2, next_key + 1)]
        /\ unsaved' = <<"ci", "eum", "euicc">>
        /\ key_saved' = FALSE /\ raised' = FALSE /\ phase' = "saving"
        /\ next_key' = next_key + 3 /\ next_key' <= MaxKey + 1
    BY <1>7, Queues DEF GenerateFullChain, Install
  <2>2. /\ next_key \in Keys /\ next_key + 1 \in Keys /\ next_key + 2 \in Keys
        /\ next_key' \in 3..(MaxKey + 1)
    BY <1>2, <2>1, DiskFacts, MaxKeyAssumption DEF Keys
  <2>3. /\ Issued(next_key, next_key) \in Bundle /\ Issued(next_key + 1, next_key) \in Bundle
        /\ Issued(next_key + 2, next_key + 1) \in Bundle
    BY <2>2 DEF Issued, Bundle, Certificate
  <2>4. /\ chain'["ci"] = Issued(next_key, next_key)
        /\ chain'["eum"] = Issued(next_key + 1, next_key)
        /\ chain'["euicc"] = Issued(next_key + 2, next_key + 1)
    BY <1>3, <2>1
  <2>5. chain' \in [Names -> Bundle]
    BY <2>1, <2>3 DEF Names
  <2>6. KeysFit' /\ Chained'
    BY <2>4 DEF KeysFit, Chained, Issued, Names
  <2>7. \A n \in Names : Among(n, unsaved')
    BY <2>1, Queues DEF Among, Names
  <2>8. identity' = Nothing
    BY <1>2, <1>7, Distinct DEF CertInv, IdentityInv, Loads
  <2>9. "sgp26" \notin modes' => \A n \in Names : cert_file[n] = Missing
    BY <1>2, <1>7 DEF CertInv, LegacyOnlyInv, IsAbsent
  <2> QED BY <1>1, <1>2, <2>1, <2>2, <2>5, <2>6, <2>7, <2>8, <2>9, StartKeepsInv DEF Queue
<1> QED
  BY <1>4, <1>5, <1>6, <1>7 DEF StartLegacy, LoadExisting

-----------------------------------------------------------------------------
(* Theorems *)

LEMMA NextKeepsInv == CertInv /\ [CertNext]_certVars => CertInv'
<1> SUFFICES ASSUME CertInv, [CertNext]_certVars PROVE CertInv'
  OBVIOUS
<1>1. CASE StartSgp
  BY <1>1, StartSgpKeepsInv
<1>2. CASE StartLegacy
  BY <1>2, StartLegacyKeepsInv
<1>3. CASE Save
  BY <1>3, SaveKeepsInv
<1>4. CASE Ready
  BY <1>4, ReadyKeepsInv
<1>5. CASE Stop
  BY <1>5, StopKeepsInv
<1>6. CASE Crash
  BY <1>6, CrashKeepsInv
<1>7. CASE SwitchPackage
  BY <1>7, SameFilesKeepInv DEF SwitchPackage
<1>8. CASE UNCHANGED certVars
  BY <1>8, SameFilesKeepInv DEF certVars, CertInv, CertificatesTypeOK
<1> QED
  BY <1>1, <1>2, <1>3, <1>4, <1>5, <1>6, <1>7, <1>8 DEF CertNext

LEMMA CertInvariant == CertSpec => []CertInv
BY InitCertInv, NextKeepsInv, PTL DEF CertSpec

\* Bundles, files and histories keep their types, however many keys there are.
THEOREM CertificatesTypeCorrect == CertSpec => []CertificatesTypeOK
<1>1. CertInv => CertificatesTypeOK
  BY DEF CertInv
<1> QED
  BY <1>1, CertInvariant, PTL

\* The chain in use is one: in SGP.26 mode always, in legacy mode after the
\* histories ChainSound names.
THEOREM ChainsAreSound == CertSpec => []ChainSound
<1>1. CertInv => ChainSound
  <2> SUFFICES ASSUME CertInv, phase = "ready" PROVE ChainSound
    BY DEF ChainSound
  <2>1. ASSUME mode = "sgp26" PROVE Chained
    <3>1. /\ chain = SgpChain(chain["euicc"]) /\ chain["euicc"] \in Bundle
          /\ chain["euicc"].certificate.issuer = SgpEum
      BY <2>1 DEF CertInv, SgpInv, HasChain, Names
    <3>2. chain["ci"] = Issued(SgpCi, SgpCi) /\ chain["eum"] = Issued(SgpEum, SgpCi)
      BY <3>1 DEF SgpChain, Names
    <3> QED BY <3>1, <3>2 DEF Chained, Issued
  <2>2. ASSUME mode = "legacy", modes = {"legacy"} \/ ~(overtaken \/ interrupted) PROVE Chained
    <3>1. mode \in modes
      BY DEF CertInv, HasChain
    <3> QED BY <2>2, <3>1 DEF CertInv, LegacyOnlyInv, SettledInv
  <2>3. modes # Modes \/ ~interrupted => KeysFit
    BY DEF CertInv, FitInv
  <2> QED BY <2>1, <2>2, <2>3 DEF ChainSound
<1> QED
  BY <1>1, CertInvariant, PTL

\* A start fails only after a cut save, and never without a legacy start.
THEOREM StartsSucceed == CertSpec => []StartsAgain
<1>1. CertInv => StartsAgain
  BY DEF CertInv
<1> QED
  BY <1>1, CertInvariant, PTL

\* The eUICC keeps key and certificate as long as it is started in one mode.
THEOREM IdentityStays == CertSpec => IdentityKept
<1>1. CertInv /\ [CertNext]_certVars
        => [phase # "ready" /\ phase' = "ready" /\ identity # Nothing
              => chain["euicc"] = identity]_certVars
  <2> SUFFICES ASSUME CertInv, [CertNext]_certVars,
                      phase # "ready", phase' = "ready", identity # Nothing
               PROVE  chain["euicc"] = identity
    OBVIOUS
  <2>1. Ready
    BY DEF CertNext, certVars, StartSgp, StartLegacy, LoadExisting, GenerateFullChain, Install,
       Raise, Save, Stop, Crash, SwitchPackage, Enter
  <2> QED BY <2>1 DEF Ready, CertInv, IdentityInv
<1> QED
  BY <1>1, CertInvariant, PTL DEF CertSpec, IdentityKept
=============================================================================
