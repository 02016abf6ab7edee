---------------------------- MODULE Media_proofs ----------------------------
(***************************************************************************)
(* Proofs about Media, for any messages, sessions, uploads and failures:   *)
(* types, the store against the database, and what sessions hear.  All     *)
(* rests on the type invariant and on one more conjunct, HeardInv, which   *)
(* says of a stored speech what is to be said of it once it is played.     *)
(***************************************************************************)
EXTENDS Media, TLAPS

Spoke(a) == [kind |-> "speech", of |-> a]

(***************************************************************************)
(* Names of different kinds differ, and a name tells what it is the name   *)
(* of.                                                                     *)
(***************************************************************************)
LEMMA NamesDiffer ==
    ASSUME NEW m, NEW n, NEW a, NEW b, NEW u, NEW v
    PROVE  /\ Spoke(a) # Recording(m) /\ Spoke(a) # Upload(u) /\ Recording(m) # Upload(u)
           /\ Spoke(a) = Spoke(b) => a = b
           /\ Recording(m) = Recording(n) => m = n
           /\ Upload(u) = Upload(v) => u = v
<1>1. "speech" # "recording" /\ "speech" # "upload" /\ "recording" # "upload"
  OBVIOUS
<1>2. /\ Spoke(a).kind = "speech" /\ Spoke(a).of = a /\ Spoke(b).of = b
      /\ Recording(m).kind = "recording" /\ Recording(m).of = m /\ Recording(n).of = n
      /\ Upload(u).kind = "upload" /\ Upload(u).of = u /\ Upload(v).of = v
  BY DEF Spoke, Recording, Upload
<1> QED BY <1>1, <1>2

(***************************************************************************)
(* put_file_object adds its names, and changes no other file.              *)
(***************************************************************************)
LEMMA PutAdds ==
    ASSUME NEW N, NEW c
    PROVE  /\ DOMAIN Put(N, c) = DOMAIN files \cup N
           /\ \A f \in DOMAIN Put(N, c) : Put(N, c)[f] = IF f \in N THEN c ELSE files[f]
  BY DEF Put, PutIn

\* A call that fails leaves the file out, or puts it, and then tells of it.
LEMMA SavingFails ==
    ASSUME NEW f, NEW c, FailSaving(f, c)
    PROVE  /\ DOMAIN files \subseteq DOMAIN files' /\ DOMAIN files' \subseteq DOMAIN files \cup {f}
           /\ abandoned' = IF f \in DOMAIN files' THEN abandoned \cup {f} ELSE abandoned
           /\ \A g \in DOMAIN files' : g # f => files'[g] = files[g]
           /\ f \in DOMAIN files' =>
                \/ files'[f] \in {"empty", c}
                \/ f \in DOMAIN files /\ files'[f] = files[f]
<1>1. \/ files' = files
      \/ files' = Put({f}, "empty")
      \/ files' = Put({f}, c)
  BY DEF FailSaving
<1>2. abandoned' = IF f \in DOMAIN files' THEN abandoned \cup {f} ELSE abandoned
  BY DEF FailSaving
<1>3. CASE files' = files
  BY <1>2, <1>3
<1>4. ASSUME NEW d \in {"empty", c}, files' = Put({f}, d)
      PROVE  /\ DOMAIN files' = DOMAIN files \cup {f}
             /\ files'[f] = d
             /\ \A g \in DOMAIN files' : g # f => files'[g] = files[g]
  <2>1. /\ DOMAIN files' = DOMAIN files \cup {f}
        /\ \A g \in DOMAIN files' : files'[g] = IF g \in {f} THEN d ELSE files[g]
    BY <1>4 DEF Put, PutIn
  <2> QED BY <2>1
<1> QED BY <1>1, <1>2, <1>3, <1>4

-----------------------------------------------------------------------------
(***************************************************************************)
(* Types                                                                   *)
(***************************************************************************)
FilesOK == DOMAIN files \subseteq Names /\ \A f \in DOMAIN files : files[f] \in Contents

\* What is given as a name is one; a code of the system that was changed into
\* one of Neon comes back as it was.
LEMMA NamesOK ==
    /\ \A a \in Utterances : Spoke(a) \in Names
    /\ \A m \in Recordings : Recording(m) \in Names
    /\ \A U \in SUBSET Uploads : UploadsOf(U) \subseteq Names
    /\ \A u \in Uploads : Upload(u) \in Names
    /\ \A m, l, g : Speech(m, l, g) = Spoke(<<m, l, g>>)
    /\ \A l \in Langs : ToSystem(ToNeon(l)) = l /\ l \in Codes
    /\ \A A : \A f : f \in SpeechIn(A) <=> \E a \in A : f = Spoke(a)
    /\ \A A \in SUBSET Utterances : SpeechIn(A) \subseteq Names
<1>1. /\ \A a \in Utterances : Spoke(a) \in Names
      /\ \A m \in Recordings : Recording(m) \in Names
      /\ \A u \in Uploads : Upload(u) \in Names
  BY DEF Names, Spoke, Recording, Upload
<1>2. \A U \in SUBSET Uploads : UploadsOf(U) \subseteq Names
  BY <1>1 DEF UploadsOf
<1>3. \A m, l, g : Speech(m, l, g) = Spoke(<<m, l, g>>)
  BY DEF Speech, Spoke
<1>4. \A l \in Langs : ToSystem(ToNeon(l)) = l /\ l \in Codes
  BY MediaAssumption DEF ToSystem, ToNeon, Codes
<1>5. \A A : \A f : f \in SpeechIn(A) <=> \E a \in A : f = Spoke(a)
  BY DEF SpeechIn, Spoke
<1>6. \A A \in SUBSET Utterances : SpeechIn(A) \subseteq Names
  BY <1>1, <1>5
<1> QED BY <1>1, <1>2, <1>3, <1>4, <1>5, <1>6

(***************************************************************************)
(* The speech that comes with a message, all of it or as much as a failure *)
(* lets be saved.                                                          *)
(***************************************************************************)
LEMMA VoicedOK ==
    ASSUME NEW m \in Messages, NEW V \in SUBSET Spoken[m]
    PROVE  /\ Voiced(m, V) \in SUBSET Utterances
           /\ \A a \in Voiced(m, V) : a[1] = m
<1>1. \A v \in V : v \in Codes \X Genders
  BY MediaAssumption
<1>2. \A v \in V : <<m, v[1], v[2]>> \in Utterances /\ <<m, v[1], v[2]>>[1] = m
  BY <1>1 DEF Utterances
<1> QED BY <1>2 DEF Voiced

LEMMA SpokenFails ==
    ASSUME NEW m, NEW v, FailSpokenMessage(m, v)
    PROVE  \E done, left \in SUBSET Spoken[m], content \in {"empty", "original"} :
              /\ audio' = audio \cup Voiced(m, done)
              /\ abandoned' = abandoned \cup SpeechIn(Voiced(m, left))
              /\ DOMAIN files' = DOMAIN files \cup SpeechIn(Voiced(m, done))
                                              \cup SpeechIn(Voiced(m, left))
              /\ \A f \in DOMAIN files' :
                    files'[f] = IF f \in SpeechIn(Voiced(m, left)) THEN content
                                ELSE IF f \in SpeechIn(Voiced(m, done)) THEN "original"
                                ELSE files[f]
<1>1. PICK done \in SUBSET (Spoken[m] \ {v}), left \in SUBSET {v},
           content \in {"empty", "original"} :
           /\ audio' = audio \cup Voiced(m, done)
           /\ files' = PutIn(Put(SpeechIn(Voiced(m, done)), "original"),
                            SpeechIn(Voiced(m, left)), content)
           /\ abandoned' = abandoned \cup SpeechIn(Voiced(m, left))
  BY DEF FailSpokenMessage
<1>2. done \in SUBSET Spoken[m] /\ left \in SUBSET Spoken[m]
  BY DEF FailSpokenMessage
<1> DEFINE D == SpeechIn(Voiced(m, done))
           L == SpeechIn(Voiced(m, left))
           once == Put(D, "original")
<1>3. /\ DOMAIN once = DOMAIN files \cup D
      /\ \A f \in DOMAIN once : once[f] = IF f \in D THEN "original" ELSE files[f]
  BY DEF Put, PutIn
<1>4. files' = PutIn(once, L, content)
  BY <1>1
<1> HIDE DEF D, L, once
<1>5. /\ DOMAIN files' = DOMAIN once \cup L
      /\ \A f \in DOMAIN files' : files'[f] = IF f \in L THEN content ELSE once[f]
  BY <1>4 DEF PutIn
<1>6. /\ DOMAIN files' = DOMAIN files \cup D \cup L
      /\ \A f \in DOMAIN files' : files'[f] = IF f \in L THEN content
                                             ELSE IF f \in D THEN "original" ELSE files[f]
  BY <1>3, <1>5
<1> QED BY <1>1, <1>2, <1>6 DEF D, L

LEMMA PutOK ==
    ASSUME FilesOK, NEW N \in SUBSET Names, NEW c \in Contents, files' = Put(N, c)
    PROVE  FilesOK'
<1>1. /\ DOMAIN files' = DOMAIN files \cup N
      /\ \A f \in DOMAIN files' : files'[f] = IF f \in N THEN c ELSE files[f]
  BY PutAdds
<1> QED BY <1>1 DEF FilesOK

LEMMA SavingOK ==
    ASSUME TypeOK, NEW f \in Names, NEW c \in Contents, FailSaving(f, c)
    PROVE  FilesOK' /\ abandoned' \subseteq Names /\ failures' \in 0..MaxFailures
<1>1. FilesOK /\ "empty" \in Contents /\ {f} \in SUBSET Names
  BY DEF TypeOK, FilesOK, Contents
<1>2. FilesOK'
  <2>1. CASE files' = files
    BY <1>1, <2>1 DEF FilesOK
  <2> QED BY <1>1, <2>1, PutOK DEF FailSaving
<1>3. abandoned' \subseteq Names
  BY DEF TypeOK, FailSaving
<1>4. failures' \in 0..MaxFailures
  BY BoundAssumption DEF TypeOK, FailSaving
<1> QED BY <1>2, <1>3, <1>4

\* Everything in TypeOK but what most actions leave alone.
LEMMA TypeInit == Init => TypeOK
  BY BoundAssumption, MediaAssumption DEF Init, TypeOK, Stored, Names, Contents

LEMMA UploadTypes ==
    ASSUME TypeOK, NEW U \in SUBSET Uploads,
           SaveAttachments(U) \/ FailAttachments(U) \/ GiveUp(U)
    PROVE  TypeOK'
<1>1. FilesOK /\ "data" \in Contents /\ UploadsOf(U) \in SUBSET Names
  BY NamesOK DEF TypeOK, FilesOK, Contents
<1>2. CASE SaveAttachments(U)
  <2>1. FilesOK'
    BY <1>1, <1>2, PutOK DEF SaveAttachments
  <2> QED BY <1>2, <2>1 DEF TypeOK, FilesOK, SaveAttachments, Silent, database, named, history,
             Stored, Heard
<1>3. CASE FailAttachments(U)
  <2>1. PICK done \in SUBSET U : /\ files' = Put(UploadsOf(done), "data")
                                 /\ abandoned' = abandoned \cup UploadsOf(done)
    BY <1>3 DEF FailAttachments
  <2>2. UploadsOf(done) \in SUBSET Names
    BY NamesOK
  <2>3. FilesOK' /\ abandoned' \subseteq Names
    BY <1>1, <2>1, <2>2, PutOK DEF TypeOK
  <2>4. failures' \in 0..MaxFailures
    BY <1>3, BoundAssumption DEF TypeOK, FailAttachments
  <2> QED BY <1>3, <2>3, <2>4 DEF TypeOK, FilesOK, FailAttachments, Silent, database, named,
             Stored, Heard
<1>4. CASE GiveUp(U)
  BY <1>1, <1>4 DEF TypeOK, GiveUp, Silent, database, named, Stored, Heard
<1> QED BY <1>2, <1>3, <1>4

LEMMA AvatarTypes ==
    ASSUME TypeOK, NEW user, NEW u \in Uploads,
           (user \in Users /\ UpdateAvatar(user, u)) \/ FailAvatar(u)
    PROVE  TypeOK'
<1>1. FilesOK /\ "data" \in Contents /\ Upload(u) \in Names
  BY NamesOK DEF TypeOK, FilesOK, Contents
<1>2. CASE user \in Users /\ UpdateAvatar(user, u)
  <2>1. FilesOK'
    BY <1>1, <1>2, PutOK DEF UpdateAvatar
  <2>2. abandoned' \subseteq Names
    BY <1>2, NamesOK DEF TypeOK, UpdateAvatar
  <2> QED BY <1>2, <2>1, <2>2 DEF TypeOK, FilesOK, UpdateAvatar, Silent, Stored, Heard
<1>3. CASE FailAvatar(u)
  <2>1. FilesOK' /\ abandoned' \subseteq Names /\ failures' \in 0..MaxFailures
    BY <1>1, <1>3, SavingOK DEF FailAvatar
  <2> QED BY <1>3, <2>1 DEF TypeOK, FilesOK, FailAvatar, Silent, database, named, Stored, Heard
<1> QED BY <1>2, <1>3

\* What Store does to the types; once stored, a message stays so.
LEMMA StoreOK ==
    ASSUME TypeOK, NEW m \in Messages, NEW U \in SUBSET Uploads, Store(m, U)
    PROVE  /\ wording' \in [Messages -> Wordings \cup {"absent"}]
           /\ worded' \in [Messages -> SUBSET Wordings]
           /\ attached' \in [Messages -> SUBSET Uploads]
           /\ offered' \subseteq SUBSET Uploads
           /\ Stored \subseteq Stored'
  BY DEF TypeOK, Store, Stored, Wordings

LEMMA MessageTypes ==
    ASSUME TypeOK, NEW m \in Messages, NEW U \in SUBSET Uploads, NEW v,
           UserMessage(m, U) \/ FailSpokenMessage(m, v) \/ FailRecording(m) \/ Translate(m)
    PROVE  TypeOK'
<1>1. FilesOK /\ "data" \in Contents /\ "original" \in Contents
  BY DEF TypeOK, FilesOK, Contents, Wordings
<1>2. \A V \in SUBSET Spoken[m] : /\ Voiced(m, V) \in SUBSET Utterances
                                  /\ SpeechIn(Voiced(m, V)) \in SUBSET Names
  BY VoicedOK, NamesOK
<1>3. CASE UserMessage(m, U)
  <2>2. FilesOK' /\ audio' \subseteq Utterances
    <3>1. CASE m \in Recordings
      <4>1. {Recording(m)} \in SUBSET Names
        BY <3>1, NamesOK
      <4> QED BY <1>1, <1>3, <3>1, <4>1, PutOK DEF UserMessage, TypeOK
    <3>2. CASE m \notin Recordings
      <4>1. FilesOK'
        BY <1>1, <1>2, <1>3, <3>2, PutOK DEF UserMessage
      <4> QED BY <1>2, <1>3, <3>2, <4>1 DEF UserMessage, TypeOK
    <3> QED BY <3>1, <3>2
  <2> QED BY <1>3, <2>2, StoreOK DEF TypeOK, FilesOK, UserMessage, Silent, Heard
<1>4. CASE FailSpokenMessage(m, v)
  <2>1. PICK done, left \in SUBSET Spoken[m], content \in {"empty", "original"} :
              /\ audio' = audio \cup Voiced(m, done)
              /\ abandoned' = abandoned \cup SpeechIn(Voiced(m, left))
              /\ DOMAIN files' = DOMAIN files \cup SpeechIn(Voiced(m, done))
                                              \cup SpeechIn(Voiced(m, left))
              /\ \A f \in DOMAIN files' :
                    files'[f] = IF f \in SpeechIn(Voiced(m, left)) THEN content
                                ELSE IF f \in SpeechIn(Voiced(m, done)) THEN "original"
                                ELSE files[f]
    BY <1>4, SpokenFails
  <2>2. "empty" \in Contents
    BY DEF Contents
  <2>3. FilesOK'
    BY <1>1, <1>2, <2>1, <2>2 DEF FilesOK
  <2>4. audio' \subseteq Utterances /\ abandoned' \subseteq Names
    BY <1>2, <2>1 DEF TypeOK
  <2>5. Store(m, {}) /\ {} \in SUBSET Uploads /\ failures' \in 0..MaxFailures
    BY <1>4, BoundAssumption DEF FailSpokenMessage, TypeOK
  <2> QED BY <1>4, <2>3, <2>4, <2>5, StoreOK DEF TypeOK, FilesOK, FailSpokenMessage, Silent, Heard
<1>5. CASE FailRecording(m)
  <2>1. Recording(m) \in Names
    BY <1>5, NamesOK DEF FailRecording
  <2>2. FilesOK' /\ abandoned' \subseteq Names /\ failures' \in 0..MaxFailures
    BY <1>1, <1>5, <2>1, SavingOK DEF FailRecording
  <2> QED BY <1>5, <2>2 DEF TypeOK, FilesOK, FailRecording, Silent, database, named, Stored, Heard
<1>6. CASE Translate(m)
  <2>1. abandoned' \subseteq Names
    BY <1>6, NamesOK DEF TypeOK, Translate
  <2>2. Stored' = Stored
    BY <1>6 DEF TypeOK, Translate, Stored
  <2> QED BY <1>6, <2>1, <2>2 DEF TypeOK, Translate, Silent, named, Wordings, Heard
<1> QED BY <1>3, <1>4, <1>5, <1>6

\* A speech that the database names is on the store.
SpeechStored == \A a \in audio : Spoke(a) \in DOMAIN files

LEMMA SpeechTypes ==
    ASSUME TypeOK, SpeechStored, NEW s \in Sessions, NEW m \in Messages, NEW l \in Langs,
           PlayStored(s, m, l) \/ AskForSpeech(s, m, l)
    PROVE  TypeOK'
<1>1. CASE PlayStored(s, m, l)
  <2>1. files[Speech(m, l, "female")] \in Contents
    BY <1>1, NamesOK DEF TypeOK, SpeechStored, PlayStored
  <2>2. heard' \subseteq Heard
    <3>1. CASE files[Speech(m, l, "female")] = "empty"
      BY <1>1, <3>1 DEF PlayStored
    <3>2. CASE files[Speech(m, l, "female")] # "empty"
      BY <1>1, <2>1, <3>2 DEF PlayStored, Heard, Contents, Wordings
    <3> QED BY <3>1, <3>2
  <2>3. wanted' \subseteq Sessions \X Messages \X Langs
    BY <1>1 DEF TypeOK, PlayStored, Wants
  <2> QED BY <1>1, <2>2, <2>3 DEF TypeOK, PlayStored, database, named, Stored
<1>2. CASE AskForSpeech(s, m, l)
  <2>1. [to |-> s, of |-> m, lang |-> ToNeon(l), says |-> wording[m]] \in Asked
    BY <1>2 DEF Asked, AskForSpeech, TypeOK
  <2> QED BY <1>2, <2>1 DEF TypeOK, AskForSpeech, Wants, Silent, database, named, Stored, Heard
<1> QED BY <1>1, <1>2

\* What the answer to a request is about: the voice it names, the file it saves.
LEMMA AskedOK ==
    ASSUME TypeOK, NEW r \in asked, NEW g \in Genders
    PROVE  /\ r.of \in Messages /\ r.to \in Sessions /\ ToSystem(r.lang) \in Langs
           /\ r.says \in Contents
           /\ SpeechOf(r, g).of \in Utterances /\ SpeechOf(r, g) = Spoke(SpeechOf(r, g).of)
           /\ SpeechOf(r, g) \in Names
           /\ HeardFrom(r, r.to) \in Heard
<1>1. r \in Asked
  BY DEF TypeOK
<1>2. r.of \in Messages /\ r.to \in Sessions /\ r.says \in Wordings \cup {"data"}
  BY <1>1 DEF Asked
<1>3. PICK l \in Langs : r.lang = ToNeon(l)
  BY <1>1 DEF Asked
<1>4. ToSystem(r.lang) \in Langs /\ ToSystem(r.lang) \in Codes
  BY <1>3, NamesOK
<1>6. /\ <<r.of, ToSystem(r.lang), g>> \in Utterances
      /\ SpeechOf(r, g) = Spoke(<<r.of, ToSystem(r.lang), g>>)
      /\ Spoke(<<r.of, ToSystem(r.lang), g>>).of = <<r.of, ToSystem(r.lang), g>>
  BY <1>2, <1>4 DEF Utterances, SpeechOf, Speech, Spoke
<1>7. HeardFrom(r, r.to) \in Heard
  BY <1>2, <1>4 DEF Heard, HeardFrom
<1>8. SpeechOf(r, g) \in Names
  BY <1>6, NamesOK
<1>9. r.says \in Contents
  BY <1>2 DEF Contents
<1> QED BY <1>2, <1>4, <1>6, <1>7, <1>8, <1>9

LEMMA AnswerTypes ==
    ASSUME TypeOK, NEW r \in asked, NEW g \in Genders,
           \/ TtsResponse(r, g) \/ FailTtsResponse(r, g)
           \/ LoseRequest(r) \/ (SttResponse(r) /\ r \notin SpeechAsked)
    PROVE  TypeOK'
<1>1. FilesOK /\ {SpeechOf(r, g)} \in SUBSET Names /\ r.says \in Contents
  BY AskedOK DEF TypeOK, FilesOK
<1>2. CASE TtsResponse(r, g)
  <2>1. FilesOK'
    BY <1>1, <1>2, PutOK DEF TtsResponse
  <2>2. audio' \subseteq Utterances /\ heard' \subseteq Heard
    BY <1>2, AskedOK DEF TypeOK, TtsResponse
  <2> QED BY <1>2, <2>1, <2>2 DEF TypeOK, FilesOK, TtsResponse, Stored
<1>3. CASE FailTtsResponse(r, g)
  <2>1. FilesOK' /\ abandoned' \subseteq Names /\ failures' \in 0..MaxFailures
    BY <1>1, <1>3, SavingOK DEF FailTtsResponse
  <2> QED BY <1>3, <2>1 DEF TypeOK, FilesOK, FailTtsResponse, Silent, database, named, Stored,
             Heard
<1>4. CASE LoseRequest(r)
  BY <1>4 DEF TypeOK, LoseRequest, Silent, database, named, history, Stored, Heard
<1>5. CASE SttResponse(r) /\ r \notin SpeechAsked
  <2>1. r.of \in Recordings
    BY <1>5 DEF SpeechAsked
  <2>2. CASE wording[r.of] = "absent"
    BY <1>5, <2>2 DEF TypeOK, SttResponse, Silent, named, history, Stored, Heard
  <2>3. CASE wording[r.of] # "absent"
    <3>1. heard' \subseteq Heard
      BY <1>5, <2>3, AskedOK DEF SttResponse
    <3>2. failures' \in 0..MaxFailures
      BY <1>5, <2>3, BoundAssumption DEF TypeOK, SttResponse
    <3>3. r.of \in Stored /\ Stored' = Stored
      BY <1>5, <2>3, AskedOK DEF SttResponse, Stored
    <3>4. transcripts' \subseteq Recordings \cap Stored'
      BY <1>5, <2>1, <2>3, <3>3 DEF TypeOK, SttResponse, SaveSttResponse
    <3> QED BY <1>5, <3>1, <3>2, <3>3, <3>4 DEF TypeOK, SttResponse, named, history
  <2> QED BY <2>2, <2>3
<1> QED BY <1>2, <1>3, <1>4, <1>5

LEMMA TranscriptTypes ==
    ASSUME TypeOK, NEW s \in Sessions, NEW m \in Recordings,
           ReadTranscript(s, m) \/ AskForTranscript(s, m)
    PROVE  TypeOK'
<1>1. m \in Messages /\ "en" \in Langs
  BY MediaAssumption
<1>2. /\ Transcript(s, m) \in Heard
      /\ [Transcript(s, m) EXCEPT !.lang = ToNeon("en")] \in Asked
  BY <1>1 DEF Transcript, Heard, Asked
<1>3. wanted' \subseteq Sessions \X Messages \X Langs
  BY <1>1 DEF TypeOK, ReadTranscript, AskForTranscript, Wants
<1>4. CASE ReadTranscript(s, m)
  BY <1>2, <1>3, <1>4 DEF TypeOK, ReadTranscript, database, named, Stored
<1>5. CASE AskForTranscript(s, m)
  BY <1>2, <1>3, <1>5 DEF TypeOK, AskForTranscript, Silent, database, named, Stored
<1> QED BY <1>4, <1>5

-----------------------------------------------------------------------------
(***************************************************************************)
(* The store and the database                                              *)
(***************************************************************************)

\* The name of a file that the database knows, or a client about to tell it.
Kept(f) == \/ \E a \in audio : f = Spoke(a)
           \/ \E m \in Messages : \E u \in attached[m] : f = Upload(u)
           \/ \E m \in Recordings : wording[m] = "original" /\ f = Recording(m)
           \/ \E u \in Users : avatar[u] # NoUpload /\ f = Upload(avatar[u])
           \/ \E U \in offered : \E u \in U : f = Upload(u)

\* Nothing is attached to a message before it is stored: else its first
\* attachments would be lost when they are replaced.
Unattached == \A m \in Messages : wording[m] = "absent" => attached[m] = {}

FilesInv == /\ \A f : Kept(f) => f \in DOMAIN files
            /\ \A f \in DOMAIN files : Kept(f) \/ f \in abandoned
            /\ Unattached

LEMMA KeptIs ==
    \A f : /\ Kept(f) <=> f \in Named \/ f \in UploadsOf(UNION offered) \/ f \in Unsought
           /\ Kept(f) <=> f \in Named \/ f \in UploadsOf(UNION offered) \/ f \in SpeechIn(audio)
<1> TAKE f
<1> DEFINE S == SpeechIn(Sought)
           M == UNION {NamedByMessage(m) : m \in Messages}
           P == UNION {NamedByUser(u) : u \in Users}
<1>1. /\ f \in S \/ f \in Unsought <=> \E a \in audio : f = Spoke(a)
      /\ f \in SpeechIn(audio) <=> \E a \in audio : f = Spoke(a)
      /\ f \in S => f \in SpeechIn(audio)
  <2>1. Sought \subseteq audio
    BY DEF Sought
  <2>2. \A A : f \in SpeechIn(A) <=> \E a \in A : f = Spoke(a)
    BY NamesOK
  <2>3. f \in Unsought <=> \E a \in audio \ Sought : f = Spoke(a)
    BY <2>2 DEF Unsought
  <2> QED BY <2>1, <2>2, <2>3
<1>2. f \in M <=> \/ \E m \in Messages : \E u \in attached[m] : f = Upload(u)
                 \/ \E m \in Recordings : wording[m] = "original" /\ f = Recording(m)
  <2>1. \A m \in Messages : f \in NamedByMessage(m)
           <=> \/ \E u \in attached[m] : f = Upload(u)
               \/ m \in Recordings /\ wording[m] = "original" /\ f = Recording(m)
    BY DEF NamedByMessage
  <2>2. f \in M <=> \E m \in Messages : f \in NamedByMessage(m)
    OBVIOUS
  <2> QED BY <2>1, <2>2, MediaAssumption
<1>3. f \in P <=> \E u \in Users : avatar[u] # NoUpload /\ f = Upload(avatar[u])
  <2>1. \A u \in Users : f \in NamedByUser(u) <=> avatar[u] # NoUpload /\ f = Upload(avatar[u])
    BY DEF NamedByUser
  <2>2. f \in P <=> \E u \in Users : f \in NamedByUser(u)
    OBVIOUS
  <2> QED BY <2>1, <2>2
<1>4. f \in UploadsOf(UNION offered) <=> \E U \in offered : \E u \in U : f = Upload(u)
  BY DEF UploadsOf
<1>5. Named = S \cup M \cup P
  BY DEF Named
<1> HIDE DEF S, M, P
<1>6. f \in Named <=> f \in S \/ f \in M \/ f \in P
  BY <1>5
<1> QED BY <1>1, <1>2, <1>3, <1>4, <1>6 DEF Kept

LEMMA FilesInvMeans == FilesInv => SpeechStored /\ FilesAccountedFor
<1>1. FilesInv => SpeechStored
  BY DEF FilesInv, SpeechStored, Kept
<1>2. FilesInv => NamedFilesExist
  BY KeptIs DEF FilesInv, NamedFilesExist, Found
<1>3. FilesInv => OrphansHaveCause
  BY KeptIs DEF FilesInv, OrphansHaveCause
<1> QED BY <1>1, <1>2, <1>3 DEF FilesAccountedFor

(***************************************************************************)
(* What a step must do: files stay, what becomes known is on the store,    *)
(* and what is new there or is not known any more is accounted for.        *)
(***************************************************************************)
LEMMA FilesStep ==
    ASSUME FilesInv,
           DOMAIN files \subseteq DOMAIN files', abandoned \subseteq abandoned',
           \A f : Kept(f)' => Kept(f) \/ f \in DOMAIN files',
           \A f \in DOMAIN files : Kept(f) => (Kept(f)' \/ f \in abandoned'),
           \A f \in DOMAIN files' \ DOMAIN files : Kept(f)' \/ f \in abandoned',
           Unattached'
    PROVE  FilesInv'
<1>1. \A f : Kept(f)' => f \in DOMAIN files'
  BY DEF FilesInv
<1>2. \A f \in DOMAIN files' : Kept(f)' \/ f \in abandoned'
  BY DEF FilesInv
<1> QED BY <1>1, <1>2 DEF FilesInv

LEMMA FilesInit == Init => FilesInv
<1> SUFFICES ASSUME Init PROVE FilesInv
  OBVIOUS
<1>1. DOMAIN files = {}
  BY DEF Init
<1>2. \A f : ~Kept(f)
  <2> TAKE f
  <2>1. \A m \in Recordings : wording[m] = "absent"
    BY MediaAssumption DEF Init
  <2>2. /\ audio = {} /\ offered = {} /\ \A m \in Messages : attached[m] = {}
        /\ \A u \in Users : avatar[u] = NoUpload
    BY DEF Init
  <2> QED BY <2>1, <2>2 DEF Kept
<1> QED BY <1>1, <1>2 DEF Init, FilesInv, Unattached

\* Every step that leaves the database, the offers and the store alone.
LEMMA FilesStutter ==
    ASSUME FilesInv, UNCHANGED <<audio, attached, avatar, files, offered, abandoned>>,
           \A m \in Messages : wording'[m] = "absent" <=> wording[m] = "absent",
           \A m \in Recordings : wording'[m] = "original" <=> wording[m] = "original"
    PROVE  FilesInv'
<1>1. \A f : Kept(f)' <=> Kept(f)
  BY DEF Kept
<1> QED BY <1>1 DEF FilesInv, Unattached

LEMMA UploadFiles ==
    ASSUME TypeOK, FilesInv, NEW U \in SUBSET Uploads,
           SaveAttachments(U) \/ FailAttachments(U) \/ GiveUp(U)
    PROVE  FilesInv'
<1>1. Unattached' /\ UNCHANGED <<audio, attached, avatar, wording>>
  BY DEF FilesInv, Unattached, SaveAttachments, FailAttachments, GiveUp, database, named
<1>2. CASE SaveAttachments(U)
  <2>1. /\ DOMAIN files' = DOMAIN files \cup UploadsOf(U) /\ abandoned' = abandoned
        /\ offered' = offered \cup {U}
    BY <1>2, PutAdds DEF SaveAttachments, history
  <2>2. \A f : Kept(f)' <=> Kept(f) \/ f \in UploadsOf(U)
    BY <1>1, <2>1 DEF Kept, UploadsOf
  <2> QED BY <1>1, <2>1, <2>2, FilesStep
<1>3. CASE FailAttachments(U)
  <2>1. PICK done \in SUBSET U : /\ files' = Put(UploadsOf(done), "data")
                                 /\ abandoned' = abandoned \cup UploadsOf(done)
    BY <1>3 DEF FailAttachments
  <2>2. DOMAIN files' = DOMAIN files \cup UploadsOf(done) /\ offered' = offered
    BY <1>3, <2>1, PutAdds DEF FailAttachments
  <2>3. \A f : Kept(f)' <=> Kept(f)
    BY <1>1, <2>2 DEF Kept
  <2> QED BY <1>1, <2>1, <2>2, <2>3, FilesStep
<1>4. CASE GiveUp(U)
  <2>1. /\ files' = files /\ abandoned' = abandoned \cup UploadsOf(U)
        /\ offered' = offered \ {U}
    BY <1>4 DEF GiveUp
  <2>2. \A f : /\ Kept(f)' => Kept(f)
               /\ Kept(f) => (Kept(f)' \/ f \in UploadsOf(U))
    BY <1>1, <2>1 DEF Kept, UploadsOf
  <2> QED BY <1>1, <2>1, <2>2, FilesStep
<1> QED BY <1>2, <1>3, <1>4

LEMMA AvatarFiles ==
    ASSUME TypeOK, FilesInv, NEW user, NEW u \in Uploads,
           (user \in Users /\ UpdateAvatar(user, u)) \/ FailAvatar(u)
    PROVE  FilesInv'
<1>1. Unattached' /\ UNCHANGED <<audio, attached, offered, wording>>
  BY DEF FilesInv, Unattached, UpdateAvatar, FailAvatar, database, named
<1>2. CASE user \in Users /\ UpdateAvatar(user, u)
  <2>1. DOMAIN files' = DOMAIN files \cup {Upload(u)}
    BY <1>2, PutAdds DEF UpdateAvatar
  <2>2. /\ \A v \in Users : v # user => avatar'[v] = avatar[v]
        /\ avatar'[user] = u /\ u # NoUpload /\ user \in Users
    BY <1>2, MediaAssumption DEF TypeOK, UpdateAvatar
  <2>3. \A f : Kept(f)' => Kept(f) \/ f = Upload(u)
    BY <1>1, <2>2 DEF Kept
  <2>4. \A f : Kept(f) => Kept(f)' \/ f \in abandoned'
    <3> SUFFICES ASSUME NEW f, Kept(f) PROVE Kept(f)' \/ f \in abandoned'
      OBVIOUS
    <3>1. CASE avatar[user] # NoUpload /\ f = Upload(avatar[user])
      BY <1>2, <3>1 DEF UpdateAvatar
    <3>2. CASE ~(avatar[user] # NoUpload /\ f = Upload(avatar[user]))
      BY <1>1, <2>2, <3>2 DEF Kept
    <3> QED BY <3>1, <3>2
  <2>5. Kept(Upload(u))'
    BY <2>2 DEF Kept
  <2>6. abandoned \subseteq abandoned'
    BY <1>2 DEF UpdateAvatar
  <2>7. /\ \A f : Kept(f)' => Kept(f) \/ f \in DOMAIN files'
        /\ \A f \in DOMAIN files' \ DOMAIN files : Kept(f)' \/ f \in abandoned'
    BY <2>1, <2>3, <2>5
  <2> QED BY <1>1, <2>1, <2>4, <2>6, <2>7, FilesStep
<1>3. CASE FailAvatar(u)
  <2>1. /\ DOMAIN files \subseteq DOMAIN files' /\ DOMAIN files' \subseteq DOMAIN files \cup {Upload(u)}
        /\ abandoned' = IF Upload(u) \in DOMAIN files' THEN abandoned \cup {Upload(u)} ELSE abandoned
    BY <1>3, SavingFails DEF FailAvatar
  <2>2. \A f : Kept(f)' <=> Kept(f)
    BY <1>1, <1>3 DEF Kept, FailAvatar, database, named
  <2>3. /\ abandoned \subseteq abandoned'
        /\ \A f \in DOMAIN files' \ DOMAIN files : f \in abandoned'
    BY <2>1
  <2> QED BY <1>1, <2>1, <2>2, <2>3, FilesStep
<1> QED BY <1>2, <1>3

\* What a message with uploads makes known was offered before.
LEMMA StoreKeeps ==
    ASSUME TypeOK, FilesInv, NEW m \in Messages, NEW U \in offered \cup {{}},
           wording[m] = "absent", Store(m, U), avatar' = avatar,
           audio \subseteq audio'
    PROVE  /\ Unattached'
           /\ \A f : Kept(f) => Kept(f)'
           /\ \A f : Kept(f)' => \/ Kept(f)
                                 \/ \E a \in audio' \ audio : f = Spoke(a)
                                 \/ m \in Recordings /\ f = Recording(m)
<1>1. /\ \A n \in Messages : n # m => wording'[n] = wording[n] /\ attached'[n] = attached[n]
      /\ wording'[m] = "original" /\ attached'[m] = U /\ attached[m] = {}
      /\ offered' = offered \ {U}
  BY DEF TypeOK, FilesInv, Unattached, Store
<1>2. Unattached'
  BY <1>1 DEF FilesInv, Unattached
<1>3. ASSUME NEW f, Kept(f) PROVE Kept(f)'
  <2>1. CASE \E V \in offered : \E u \in V : f = Upload(u)
    BY <1>1, <2>1 DEF Kept
  <2>2. CASE ~ \E V \in offered : \E u \in V : f = Upload(u)
    BY <1>1, <1>3, <2>2, MediaAssumption DEF Kept
  <2> QED BY <2>1, <2>2
<1>4. ASSUME NEW f, Kept(f)'
      PROVE  \/ Kept(f)
             \/ \E a \in audio' \ audio : f = Spoke(a)
             \/ m \in Recordings /\ f = Recording(m)
  BY <1>1, <1>4, MediaAssumption DEF Kept
<1> QED BY <1>2, <1>3, <1>4

LEMMA MessageFiles ==
    ASSUME TypeOK, FilesInv, NEW m \in Messages, NEW U \in offered \cup {{}}, NEW v,
           UserMessage(m, U) \/ FailSpokenMessage(m, v) \/ FailRecording(m) \/ Translate(m)
    PROVE  FilesInv'
<1>1. CASE UserMessage(m, U)
  <2>1. /\ wording[m] = "absent" /\ Store(m, U) /\ avatar' = avatar /\ audio \subseteq audio'
        /\ abandoned' = abandoned
    BY <1>1 DEF UserMessage
  <2>2. /\ DOMAIN files \subseteq DOMAIN files'
        /\ \A f \in DOMAIN files' \ DOMAIN files : Kept(f)'
        /\ \A a \in audio' \ audio : Spoke(a) \in DOMAIN files'
        /\ m \in Recordings => Recording(m) \in DOMAIN files'
    <3>1. CASE m \in Recordings
      <4>1. DOMAIN files' = DOMAIN files \cup {Recording(m)} /\ audio' = audio
        BY <1>1, <3>1, PutAdds DEF UserMessage
      <4>2. wording'[m] = "original"
        BY <2>1 DEF TypeOK, Store
      <4> QED BY <3>1, <4>1, <4>2 DEF Kept
    <3>2. CASE m \notin Recordings
      <4>1. /\ DOMAIN files' = DOMAIN files \cup SpeechIn(Voiced(m, Spoken[m]))
            /\ audio' = audio \cup Voiced(m, Spoken[m])
        BY <1>1, <3>2, PutAdds DEF UserMessage
      <4>2. \A f : f \in SpeechIn(Voiced(m, Spoken[m]))
                     <=> \E a \in Voiced(m, Spoken[m]) : f = Spoke(a)
        BY NamesOK
      <4> QED BY <3>2, <4>1, <4>2 DEF Kept
    <3> QED BY <3>1, <3>2
  <2>3. Unattached' /\ \A f : Kept(f) => Kept(f)'
    BY <2>1, StoreKeeps
  <2>4. \A f : Kept(f)' => Kept(f) \/ f \in DOMAIN files'
    BY <2>1, <2>2, StoreKeeps
  <2> QED BY <2>1, <2>2, <2>3, <2>4, FilesStep
<1>2. CASE FailSpokenMessage(m, v)
  <2>1. PICK done, left \in SUBSET Spoken[m] :
              /\ audio' = audio \cup Voiced(m, done)
              /\ abandoned' = abandoned \cup SpeechIn(Voiced(m, left))
              /\ DOMAIN files' = DOMAIN files \cup SpeechIn(Voiced(m, done))
                                              \cup SpeechIn(Voiced(m, left))
    BY <1>2, SpokenFails
  <2>2. /\ wording[m] = "absent" /\ Store(m, {}) /\ avatar' = avatar /\ audio \subseteq audio'
        /\ m \notin Recordings /\ {} \in offered \cup {{}}
    BY <1>2, <2>1, MediaAssumption DEF FailSpokenMessage
  <2>3. \A f : f \in SpeechIn(Voiced(m, done)) <=> \E a \in Voiced(m, done) : f = Spoke(a)
    BY NamesOK
  <2>4. /\ Unattached' /\ \A f : Kept(f) => Kept(f)'
        /\ \A f : Kept(f)' => Kept(f) \/ \E a \in audio' \ audio : f = Spoke(a)
    BY <2>2, StoreKeeps
  <2>5. \A f : Kept(f)' => Kept(f) \/ f \in DOMAIN files'
    BY <2>1, <2>3, <2>4
  <2>6. \A f \in SpeechIn(Voiced(m, done)) : Kept(f)'
    BY <2>1, <2>3 DEF Kept
  <2> QED BY <2>1, <2>4, <2>5, <2>6, FilesStep
<1>3. CASE FailRecording(m)
  <2>1. Unattached' /\ \A f : Kept(f)' <=> Kept(f)
    BY <1>3 DEF FilesInv, Unattached, Kept, FailRecording, database, named
  <2>2. /\ DOMAIN files \subseteq DOMAIN files'
        /\ abandoned \subseteq abandoned'
        /\ \A f \in DOMAIN files' \ DOMAIN files : f \in abandoned'
    BY <1>3, SavingFails DEF FailRecording
  <2> QED BY <2>1, <2>2, FilesStep
<1>4. CASE Translate(m)
  <2>1. /\ UNCHANGED <<audio, attached, avatar, files, offered>>
        /\ abandoned' = IF m \in Recordings THEN abandoned \cup {Recording(m)} ELSE abandoned
        /\ wording[m] = "original" /\ wording'[m] = "english"
        /\ \A n \in Messages : n # m => wording'[n] = wording[n]
    BY <1>4 DEF TypeOK, Translate, named
  <2>2. \A f : Kept(f)' => Kept(f)
    BY <2>1, MediaAssumption DEF Kept
  <2>3. \A f : Kept(f) => Kept(f)' \/ f \in abandoned'
    BY <2>1, MediaAssumption DEF Kept
  <2>4. Unattached'
    BY <2>1 DEF FilesInv, Unattached
  <2> QED BY <2>1, <2>2, <2>3, <2>4, FilesStep
<1> QED BY <1>1, <1>2, <1>3, <1>4

LEMMA AnswerFiles ==
    ASSUME TypeOK, FilesInv, NEW r \in asked, NEW g \in Genders,
           TtsResponse(r, g) \/ FailTtsResponse(r, g)
    PROVE  FilesInv'
<1>1. Unattached' /\ UNCHANGED <<attached, avatar, offered, wording>>
  BY DEF FilesInv, Unattached, TtsResponse, FailTtsResponse, database, named
<1>2. CASE TtsResponse(r, g)
  <2>1. DOMAIN files' = DOMAIN files \cup {SpeechOf(r, g)}
    BY <1>2, PutAdds DEF TtsResponse
  <2>2. audio' = audio \cup {SpeechOf(r, g).of} /\ abandoned' = abandoned
    BY <1>2 DEF TtsResponse
  <2>3. SpeechOf(r, g) = Spoke(SpeechOf(r, g).of)
    BY AskedOK
  <2>4. \A f : Kept(f)' <=> Kept(f) \/ f = SpeechOf(r, g)
    BY <1>1, <2>2, <2>3 DEF Kept
  <2> QED BY <1>1, <2>1, <2>2, <2>4, FilesStep
<1>3. CASE FailTtsResponse(r, g)
  <2>1. \A f : Kept(f)' <=> Kept(f)
    BY <1>1, <1>3 DEF Kept, FailTtsResponse, database, named
  <2>2. /\ DOMAIN files \subseteq DOMAIN files'
        /\ abandoned \subseteq abandoned'
        /\ \A f \in DOMAIN files' \ DOMAIN files : f \in abandoned'
    BY <1>3, SavingFails DEF FailTtsResponse
  <2> QED BY <1>1, <2>1, <2>2, FilesStep
<1> QED BY <1>2, <1>3

-----------------------------------------------------------------------------
(***************************************************************************)
(* What sessions hear                                                      *)
(***************************************************************************)

\* A request is one of its session; what is to be said is a wording of a
\* message that is stored.
Sound(r) == /\ <<r.to, r.of, ToSystem(r.lang)>> \in wanted
            /\ r.of \notin Recordings => r.of \in Stored /\ r.says \in worded[r.of]

\* A speech on the store, named or not, is empty or says what its name says.
Says(a) == files[Spoke(a)] \in {"empty"} \cup worded[a[1]]

HeardInv == /\ \A m \in Stored : wording[m] \in worded[m]
            /\ \A r \in asked : Sound(r)
            /\ \A a \in audio : a[1] \in Stored
            /\ \A a \in Utterances : Spoke(a) \in DOMAIN files => Says(a)
            /\ HeardAsAsked

\* Messages stay stored, their former wordings and the requests are history.
Grows == /\ Stored \subseteq Stored' /\ wanted \subseteq wanted'
         /\ \A m \in Messages : worded[m] \subseteq worded'[m]

LEMMA HeardStep ==
    ASSUME TypeOK, HeardInv, Grows,
           \A m \in Stored' : wording'[m] \in worded'[m],
           \A r \in asked' \ asked : Sound(r)',
           \A a \in audio' \ audio : a[1] \in Stored',
           \A a \in Utterances : Spoke(a) \in DOMAIN files' =>
                \/ Spoke(a) \in DOMAIN files /\ files'[Spoke(a)] = files[Spoke(a)]
                \/ Says(a)',
           HeardAsAsked'
    PROVE  HeardInv'
<1>1. \A r \in asked' : Sound(r)'
  <2> SUFFICES ASSUME NEW r \in asked', r \in asked PROVE Sound(r)'
    OBVIOUS
  <2>1. Sound(r) /\ r.of \in Messages
    BY DEF HeardInv, TypeOK, Asked
  <2> QED BY <2>1 DEF Sound, Grows
<1>2. \A a \in audio' : a[1] \in Stored'
  BY DEF HeardInv, Grows
<1>3. \A a \in Utterances : Spoke(a) \in DOMAIN files' => Says(a)'
  <2> SUFFICES ASSUME NEW a \in Utterances, Spoke(a) \in DOMAIN files',
                      Spoke(a) \in DOMAIN files, files'[Spoke(a)] = files[Spoke(a)]
               PROVE  Says(a)'
    OBVIOUS
  <2>1. Says(a) /\ a[1] \in Messages
    BY DEF HeardInv, Utterances
  <2> QED BY <2>1 DEF Says, Grows
<1> QED BY <1>1, <1>2, <1>3 DEF HeardInv

\* A step that neither tells nor says anything.
LEMMA HeardQuiet ==
    ASSUME TypeOK, HeardInv, UNCHANGED <<wording, worded, audio, wanted>>,
           heard' = {}, asked' \subseteq asked,
           \A a \in Utterances : Spoke(a) \in DOMAIN files' =>
                Spoke(a) \in DOMAIN files /\ files'[Spoke(a)] = files[Spoke(a)]
    PROVE  HeardInv'
<1>1. Stored' = Stored
  BY DEF Stored
<1>2. Grows /\ HeardAsAsked' /\ \A m \in Stored' : wording'[m] \in worded'[m]
  BY <1>1 DEF Grows, HeardAsAsked, HeardInv
<1> QED BY <1>2, HeardStep

LEMMA HeardInit == Init => HeardInv
  BY DEF Init, HeardInv, HeardAsAsked, Stored

\* Files that are no speech.
LEMMA NoSpeech ==
    ASSUME NEW N, NEW c, \A a \in Utterances : Spoke(a) \notin N,
           \/ files' = Put(N, c)
           \/ \E f \in N : FailSaving(f, c)
    PROVE  \A a \in Utterances : Spoke(a) \in DOMAIN files' =>
                Spoke(a) \in DOMAIN files /\ files'[Spoke(a)] = files[Spoke(a)]
<1>1. CASE files' = Put(N, c)
  BY <1>1 DEF Put, PutIn
<1>2. CASE \E f \in N : FailSaving(f, c)
  <2> PICK f \in N : FailSaving(f, c)
    BY <1>2
  <2>1. /\ DOMAIN files' \subseteq DOMAIN files \cup {f}
        /\ \A g \in DOMAIN files' : g # f => files'[g] = files[g]
    BY SavingFails
  <2> QED BY <2>1
<1> QED BY <1>1, <1>2

\* Attachments, avatars and recordings are no speech.
LEMMA UploadHeard ==
    ASSUME TypeOK, HeardInv, NEW U \in SUBSET Uploads,
           SaveAttachments(U) \/ FailAttachments(U) \/ GiveUp(U)
    PROVE  HeardInv'
<1>1. \A V : \A a \in Utterances : Spoke(a) \notin UploadsOf(V)
  BY NamesDiffer DEF UploadsOf
<1>2. CASE SaveAttachments(U) \/ FailAttachments(U)
  <2>1. PICK V : files' = Put(UploadsOf(V), "data")
    BY <1>2 DEF SaveAttachments, FailAttachments
  <2>2. \A a \in Utterances : Spoke(a) \in DOMAIN files' =>
           Spoke(a) \in DOMAIN files /\ files'[Spoke(a)] = files[Spoke(a)]
    BY <1>1, <2>1, NoSpeech
  <2> QED BY <1>2, <2>2, HeardQuiet
      DEF SaveAttachments, FailAttachments, Silent, database, named, history
<1>3. CASE GiveUp(U)
  BY <1>3, HeardQuiet DEF GiveUp, Silent, database, named
<1> QED BY <1>2, <1>3

LEMMA AvatarHeard ==
    ASSUME TypeOK, HeardInv, NEW user, NEW u \in Uploads,
           (user \in Users /\ UpdateAvatar(user, u)) \/ FailAvatar(u)
    PROVE  HeardInv'
<1>1. \A a \in Utterances : Spoke(a) \notin {Upload(u)}
  BY NamesDiffer
<1>2. files' = Put({Upload(u)}, "data") \/ \E f \in {Upload(u)} : FailSaving(f, "data")
  BY DEF UpdateAvatar, FailAvatar
<1>3. \A a \in Utterances : Spoke(a) \in DOMAIN files' =>
         Spoke(a) \in DOMAIN files /\ files'[Spoke(a)] = files[Spoke(a)]
  BY <1>1, <1>2, NoSpeech
<1> QED BY <1>3, HeardQuiet DEF UpdateAvatar, FailAvatar, Silent, database, named

LEMMA FailRecordingHeard ==
    ASSUME TypeOK, HeardInv, NEW m \in Messages, FailRecording(m)
    PROVE  HeardInv'
<1>1. \A a \in Utterances : Spoke(a) \notin {Recording(m)}
  BY NamesDiffer
<1>2. \E f \in {Recording(m)} : FailSaving(f, "data")
  BY DEF FailRecording
<1>3. \A a \in Utterances : Spoke(a) \in DOMAIN files' =>
         Spoke(a) \in DOMAIN files /\ files'[Spoke(a)] = files[Spoke(a)]
  BY <1>1, <1>2, NoSpeech
<1> QED BY <1>3, HeardQuiet DEF FailRecording, Silent, database, named

LEMMA MessageHeard ==
    ASSUME TypeOK, HeardInv, NEW m \in Messages, NEW U \in SUBSET Uploads, NEW v,
           UserMessage(m, U) \/ FailSpokenMessage(m, v) \/ Translate(m)
    PROVE  HeardInv'
<1>1. \A a, n : Spoke(a) # Recording(n)
  BY NamesDiffer
<1>2. \A a, b : Spoke(a) = Spoke(b) => a = b
  BY NamesDiffer
<1>3. HeardAsAsked' /\ wanted' = wanted /\ asked' = asked
  BY DEF UserMessage, FailSpokenMessage, Translate, Silent, HeardAsAsked
<1>4. CASE UserMessage(m, U) \/ FailSpokenMessage(m, v)
  <2>1. Store(m, U) \/ Store(m, {})
    BY <1>4 DEF UserMessage, FailSpokenMessage
  <2>2. /\ \A n \in Messages : n # m => wording'[n] = wording[n] /\ worded'[n] = worded[n]
        /\ wording'[m] = "original" /\ worded'[m] = worded[m] \cup {"original"}
    BY <2>1 DEF Store, TypeOK
  <2>3. /\ Grows /\ m \in Stored'
        /\ \A n \in Stored' : wording'[n] \in worded'[n]
    BY <1>3, <2>2 DEF Grows, Stored, HeardInv
  <2>4. /\ \A a \in audio' \ audio : a[1] \in Stored'
        /\ \A a \in Utterances : Spoke(a) \in DOMAIN files' =>
                \/ Spoke(a) \in DOMAIN files /\ files'[Spoke(a)] = files[Spoke(a)]
                \/ Says(a)'
    <3>1. CASE UserMessage(m, U) /\ m \in Recordings
      <4>1. files' = Put({Recording(m)}, "data") /\ audio' = audio
        BY <3>1 DEF UserMessage
      <4>2. \A a \in Utterances : Spoke(a) \notin {Recording(m)}
        BY <1>1
      <4> QED BY <4>1, <4>2, NoSpeech
    <3>2. CASE UserMessage(m, U) /\ m \notin Recordings
      <4>1. /\ files' = Put(SpeechIn(Voiced(m, Spoken[m])), "original")
            /\ audio' = audio \cup Voiced(m, Spoken[m])
        BY <3>2 DEF UserMessage
      <4>2. /\ \A a \in Voiced(m, Spoken[m]) : a[1] = m
            /\ \A a : Spoke(a) \in SpeechIn(Voiced(m, Spoken[m])) => a[1] = m
        BY <1>2, VoicedOK, NamesOK
      <4>4. \A a \in Utterances : Spoke(a) \in DOMAIN files' =>
                \/ Spoke(a) \in DOMAIN files /\ files'[Spoke(a)] = files[Spoke(a)]
                \/ a[1] = m /\ files'[Spoke(a)] = "original"
        BY <4>1, <4>2 DEF Put, PutIn
      <4> QED BY <2>2, <2>3, <4>1, <4>2, <4>4 DEF Says
    <3>3. CASE FailSpokenMessage(m, v)
      <4>1. PICK done, left \in SUBSET Spoken[m], content \in {"empty", "original"} :
              /\ audio' = audio \cup Voiced(m, done)
              /\ DOMAIN files' = DOMAIN files \cup SpeechIn(Voiced(m, done))
                                              \cup SpeechIn(Voiced(m, left))
              /\ \A f \in DOMAIN files' :
                    files'[f] = IF f \in SpeechIn(Voiced(m, left)) THEN content
                                ELSE IF f \in SpeechIn(Voiced(m, done)) THEN "original"
                                ELSE files[f]
        BY <3>3, SpokenFails
      <4>2. /\ \A a \in Voiced(m, done) \cup Voiced(m, left) : a[1] = m
            /\ \A a : Spoke(a) \in SpeechIn(Voiced(m, done)) \cup SpeechIn(Voiced(m, left))
                       => a[1] = m
        BY <1>2, VoicedOK, NamesOK
      <4>4. \A a \in Utterances : Spoke(a) \in DOMAIN files' =>
                \/ Spoke(a) \in DOMAIN files /\ files'[Spoke(a)] = files[Spoke(a)]
                \/ a[1] = m /\ files'[Spoke(a)] \in {"empty", "original"}
        BY <4>1, <4>2
      <4> QED BY <2>2, <2>3, <4>1, <4>2, <4>4 DEF Says
    <3> QED BY <1>4, <3>1, <3>2, <3>3
  <2> QED BY <1>3, <2>3, <2>4, HeardStep
<1>5. CASE Translate(m)
  <2>1. /\ \A n \in Messages : n # m => wording'[n] = wording[n] /\ worded'[n] = worded[n]
        /\ wording'[m] = "english" /\ worded'[m] = worded[m] \cup {"english"}
        /\ files' = files /\ audio' = audio
    BY <1>5 DEF Translate, TypeOK, named
  <2>2. Grows /\ \A n \in Stored' : wording'[n] \in worded'[n]
    BY <1>3, <2>1 DEF Grows, Stored, HeardInv
  <2> QED BY <1>3, <2>1, <2>2, HeardStep
<1> QED BY <1>4, <1>5

LEMMA SpeechHeard ==
    ASSUME TypeOK, SpeechStored, HeardInv, NEW s \in Sessions, NEW m \in Messages, NEW l \in Langs,
           PlayStored(s, m, l) \/ AskForSpeech(s, m, l)
    PROVE  HeardInv'
<1>1. /\ wanted' = wanted \cup {<<s, m, l>>} /\ UNCHANGED <<wording, worded, audio, files>>
  BY DEF PlayStored, AskForSpeech, Wants, database, named
<1>2. Stored' = Stored /\ Grows /\ \A n \in Stored' : wording'[n] \in worded'[n]
  BY <1>1 DEF Grows, Stored, HeardInv
<1>3. CASE PlayStored(s, m, l)
  <2>1. /\ <<m, l, "female">> \in audio /\ <<m, l, "female">> \in Utterances
        /\ Speech(m, l, "female") = Spoke(<<m, l, "female">>)
    BY <1>3, NamesOK DEF PlayStored, TypeOK
  <2>2. m \in Stored /\ files[Speech(m, l, "female")] \in {"empty"} \cup worded[m]
    BY <2>1 DEF HeardInv, SpeechStored, Says
  <2>3. heard' \subseteq {[to |-> s, of |-> m, lang |-> l,
                          says |-> files[Speech(m, l, "female")]]}
        /\ (heard' # {} => files[Speech(m, l, "female")] # "empty")
    BY <1>3 DEF PlayStored
  <2>4. HeardAsAsked'
    BY <1>1, <1>2, <2>2, <2>3 DEF HeardAsAsked
  <2> QED BY <1>1, <1>2, <1>3, <2>4, HeardStep DEF PlayStored
<1>4. CASE AskForSpeech(s, m, l)
  <2> PICK r : r = [to |-> s, of |-> m, lang |-> ToNeon(l), says |-> wording[m]]
    OBVIOUS
  <2>1. asked' = asked \cup {r} /\ HeardAsAsked' /\ m \in Stored
    BY <1>4 DEF AskForSpeech, Silent, HeardAsAsked, Stored
  <2>2. r.to = s /\ r.of = m /\ ToSystem(r.lang) = l /\ r.says = wording[m]
    BY NamesOK
  <2>3. Sound(r)'
    BY <1>1, <1>2, <2>1, <2>2 DEF Sound
  <2> QED BY <1>1, <1>2, <2>1, <2>3, HeardStep
<1> QED BY <1>3, <1>4

LEMMA AnswerHeard ==
    ASSUME TypeOK, HeardInv, NEW r \in asked, NEW g \in Genders,
           \/ (TtsResponse(r, g) \/ FailTtsResponse(r, g)) /\ r \in SpeechAsked
           \/ SttResponse(r) /\ r \notin SpeechAsked
           \/ LoseRequest(r)
    PROVE  HeardInv'
<1>1. UNCHANGED <<wording, worded, wanted>> /\ asked' \subseteq asked
  BY DEF TtsResponse, FailTtsResponse, SttResponse, LoseRequest, database, history
<1>2. Stored' = Stored /\ Grows /\ \A n \in Stored' : wording'[n] \in worded'[n]
  BY <1>1 DEF Grows, Stored, HeardInv
<1>3. /\ Sound(r) /\ r.of \in Messages
      /\ HeardFrom(r, r.to).to = r.to /\ HeardFrom(r, r.to).of = r.of
      /\ HeardFrom(r, r.to).lang = ToSystem(r.lang) /\ HeardFrom(r, r.to).says = r.says
  BY AskedOK DEF HeardInv, HeardFrom
<1>4. CASE (TtsResponse(r, g) \/ FailTtsResponse(r, g)) /\ r \in SpeechAsked
  <2> DEFINE b == <<r.of, ToSystem(r.lang), g>>
  <2>1. /\ SpeechOf(r, g) = Spoke(b) /\ SpeechOf(r, g).of = b
        /\ b[1] \in Stored /\ r.says \in worded[b[1]]
    BY <1>3, <1>4 DEF SpeechOf, Speech, Spoke, SpeechAsked, Sound
  <2>2. \A f \in DOMAIN files' :
            \/ f \in DOMAIN files /\ files'[f] = files[f]
            \/ f = Spoke(b) /\ files'[f] \in {"empty", r.says}
    <3>1. CASE TtsResponse(r, g)
      BY <2>1, <3>1 DEF TtsResponse, Put, PutIn
    <3>2. CASE FailTtsResponse(r, g)
      BY <2>1, <3>2, SavingFails DEF FailTtsResponse
    <3> QED BY <1>4, <3>1, <3>2
  <2>3. \A a \in Utterances : Spoke(a) = Spoke(b) => a = b
    BY NamesDiffer
  <2>4. \A a \in Utterances : Spoke(a) \in DOMAIN files' =>
            \/ Spoke(a) \in DOMAIN files /\ files'[Spoke(a)] = files[Spoke(a)]
            \/ Says(a)'
    BY <1>1, <2>1, <2>2, <2>3 DEF Says
  <2>5. \A a \in audio' \ audio : a[1] \in Stored'
    BY <1>2, <1>4, <2>1 DEF TtsResponse, FailTtsResponse, database, named
  <2>6. heard' \subseteq {HeardFrom(r, r.to)} /\ r.of \in Stored /\ r.says \in worded[r.of]
    BY <1>4, <2>1 DEF TtsResponse, FailTtsResponse, Silent
  <2>7. HeardAsAsked'
    BY <1>1, <1>2, <1>3, <2>6 DEF HeardAsAsked, Sound
  <2> QED BY <1>1, <1>2, <2>4, <2>5, <2>7, HeardStep
<1>5. CASE SttResponse(r) /\ r \notin SpeechAsked
  <2>1. r.of \in Recordings /\ files' = files /\ audio' = audio
    BY <1>5 DEF SpeechAsked, SttResponse, named
  <2>2. heard' \subseteq {HeardFrom(r, r.to)} /\ (heard' # {} => r.of \in Stored)
    BY <1>3, <1>5 DEF SttResponse, Silent, Stored
  <2>3. HeardAsAsked'
    BY <1>1, <1>2, <1>3, <2>1, <2>2 DEF HeardAsAsked, Sound
  <2> QED BY <1>1, <1>2, <2>1, <2>3, HeardStep
<1>6. CASE LoseRequest(r)
  BY <1>6, HeardQuiet DEF LoseRequest, Silent, database, named, history
<1> QED BY <1>4, <1>5, <1>6

LEMMA TranscriptHeard ==
    ASSUME TypeOK, HeardInv, NEW s \in Sessions, NEW m \in Recordings,
           ReadTranscript(s, m) \/ AskForTranscript(s, m)
    PROVE  HeardInv'
<1>1. /\ wanted' = wanted \cup {<<s, m, "en">>} /\ m \in Messages
      /\ UNCHANGED <<wording, worded, audio, files>>
  BY MediaAssumption DEF ReadTranscript, AskForTranscript, Wants, database, named
<1>2. Stored' = Stored /\ Grows /\ \A n \in Stored' : wording'[n] \in worded'[n]
  BY <1>1 DEF Grows, Stored, HeardInv
<1>3. CASE ReadTranscript(s, m)
  <2>1. heard' \subseteq {Transcript(s, m)} /\ asked' = asked /\ m \in Stored
    BY <1>1, <1>3 DEF ReadTranscript, Stored
  <2>2. HeardAsAsked'
    BY <1>1, <1>2, <2>1 DEF HeardAsAsked, Transcript
  <2> QED BY <1>1, <1>2, <2>1, <2>2, HeardStep
<1>4. CASE AskForTranscript(s, m)
  <2> PICK r : r = [Transcript(s, m) EXCEPT !.lang = ToNeon("en")]
    OBVIOUS
  <2>1. asked' = asked \cup {r} /\ HeardAsAsked'
    BY <1>4 DEF AskForTranscript, Silent, HeardAsAsked
  <2>2. r.to = s /\ r.of = m /\ ToSystem(r.lang) = "en"
    BY NamesOK, MediaAssumption DEF Transcript
  <2>3. Sound(r)'
    BY <1>1, <2>2 DEF Sound
  <2> QED BY <1>1, <1>2, <2>1, <2>3, HeardStep
<1> QED BY <1>3, <1>4

-----------------------------------------------------------------------------
(***************************************************************************)
(* The inductive invariant and the theorems                                *)
(***************************************************************************)
IInv == TypeOK /\ FilesInv /\ HeardInv

LEMMA StutterKeeps == IInv /\ UNCHANGED vars => IInv'
<1> SUFFICES ASSUME IInv, UNCHANGED vars PROVE IInv'
  OBVIOUS
<1> USE DEF IInv, vars, database, named, history
<1>1. TypeOK'
  BY DEF TypeOK, Stored, Heard
<1>2. FilesInv'
  BY FilesStutter
<1>3. HeardInv'
  BY DEF HeardInv, HeardAsAsked, Stored, Sound, Says
<1> QED BY <1>1, <1>2, <1>3

LEMMA StepKeeps == IInv /\ Next => IInv'
<1> SUFFICES ASSUME IInv, Next PROVE IInv'
  OBVIOUS
<1> USE DEF IInv
<1>0. SpeechStored
  BY FilesInvMeans
<1>1. CASE \E U \in (SUBSET Uploads) \ {{}} : SaveAttachments(U) \/ FailAttachments(U) \/ GiveUp(U)
  <2> PICK U \in SUBSET Uploads : SaveAttachments(U) \/ FailAttachments(U) \/ GiveUp(U)
    BY <1>1
  <2> QED BY UploadTypes, UploadFiles, UploadHeard
<1>2. CASE \E u \in Uploads : FailAvatar(u)
  \* Whose avatar it would have been plays no part.
  <2> PICK u \in Uploads : FailAvatar(u)
    BY <1>2
  <2> QED BY AvatarTypes, AvatarFiles, AvatarHeard
<1>3. CASE \E user \in Users, u \in Uploads : UpdateAvatar(user, u)
  BY <1>3, AvatarTypes, AvatarFiles, AvatarHeard
<1>4. CASE \E m \in Messages : \E U \in offered \cup {{}} : UserMessage(m, U)
  <2> PICK m \in Messages, U \in offered \cup {{}} : UserMessage(m, U)
    BY <1>4
  <2>1. U \in SUBSET Uploads /\ "en" \in Langs
    BY MediaAssumption DEF TypeOK
  <2> QED BY <2>1, MessageTypes, MessageFiles, MessageHeard
<1>5. CASE \E m \in Messages : \/ \E v \in Spoken[m] : FailSpokenMessage(m, v)
                              \/ FailRecording(m)
                              \/ Translate(m)
  <2> PICK m \in Messages : \E v : FailSpokenMessage(m, v) \/ FailRecording(m) \/ Translate(m)
    BY <1>5
  <2> PICK v : FailSpokenMessage(m, v) \/ FailRecording(m) \/ Translate(m)
    OBVIOUS
  <2>1. {} \in SUBSET Uploads /\ {} \in offered \cup {{}}
    OBVIOUS
  <2> QED BY <2>1, MessageTypes, MessageFiles, MessageHeard, FailRecordingHeard
<1>6. CASE \E s \in Sessions, m \in Messages, l \in Langs :
              PlayStored(s, m, l) \/ AskForSpeech(s, m, l)
  <2> PICK s \in Sessions, m \in Messages, l \in Langs :
              PlayStored(s, m, l) \/ AskForSpeech(s, m, l)
    BY <1>6
  <2>1. FilesInv'
    BY FilesStutter DEF PlayStored, AskForSpeech, database, named
  <2> QED BY <1>0, <2>1, SpeechTypes, SpeechHeard
<1>7. CASE \E s \in Sessions, m \in Recordings :
              ReadTranscript(s, m) \/ AskForTranscript(s, m)
  <2> PICK s \in Sessions, m \in Recordings :
              ReadTranscript(s, m) \/ AskForTranscript(s, m)
    BY <1>7
  <2>1. FilesInv'
    BY FilesStutter DEF ReadTranscript, AskForTranscript, database, named
  <2> QED BY <2>1, TranscriptTypes, TranscriptHeard
<1>8. CASE \E r \in asked : LoseRequest(r) \/ (SttResponse(r) /\ r \notin SpeechAsked)
  <2> PICK r \in asked : LoseRequest(r) \/ (SttResponse(r) /\ r \notin SpeechAsked)
    BY <1>8
  <2>1. FilesInv'
    BY FilesStutter DEF LoseRequest, SttResponse, database, named, history
  <2>2. "female" \in Genders
    BY DEF Genders
  <2> QED BY <2>1, <2>2, AnswerTypes, AnswerHeard
<1>9. CASE \E r \in SpeechAsked, g \in Genders : TtsResponse(r, g) \/ FailTtsResponse(r, g)
  <2> PICK r \in SpeechAsked, g \in Genders : TtsResponse(r, g) \/ FailTtsResponse(r, g)
    BY <1>9
  <2>1. r \in asked
    BY DEF SpeechAsked
  <2> QED BY <2>1, AnswerTypes, AnswerFiles, AnswerHeard
<1> QED BY <1>1, <1>2, <1>3, <1>4, <1>5, <1>6, <1>7, <1>8, <1>9 DEF Next

LEMMA Inductive == Spec => []IInv
<1>1. Init => IInv
  BY TypeInit, FilesInit, HeardInit DEF IInv
<1>2. IInv /\ [Next]_vars => IInv'
  BY StutterKeeps, StepKeeps
<1> QED BY <1>1, <1>2, PTL DEF Spec

\* Every variable keeps its type; no name is put on the store but of an
\* utterance, a recording or an upload.
THEOREM TypeCorrect == Spec => []TypeOK
<1>1. IInv => TypeOK
  BY DEF IInv
<1> QED BY <1>1, Inductive, PTL

\* Whatever calls fail between a put and its update: the database names no
\* file that is not on the store, and no file is unreachable without a cause.
THEOREM StoreAgrees == Spec => []FilesAccountedFor
<1>1. IInv => FilesAccountedFor
  BY FilesInvMeans DEF IInv
<1> QED BY <1>1, Inductive, PTL

\* Any number of sessions may ask for any utterances, whose files they share,
\* while messages are translated: each hears what it asked for.
THEOREM HeardRight == Spec => []HeardAsAsked
<1>1. IInv => HeardAsAsked
  BY DEF IInv, HeardInv
<1> QED BY <1>1, Inductive, PTL
=============================================================================
