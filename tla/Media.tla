------------------------------- MODULE Media -------------------------------
(***************************************************************************)
(* Speech, recordings and uploads: what the chat server keeps on the SFTP  *)
(* store and what it names in its database.  Handlers: request_tts,        *)
(* tts_response, request_stt and stt_response, the recording in            *)
(* user_message, POST /files/attachments with the message that follows it, *)
(* the avatar in POST /users/update, and the readers of all these files.   *)
(*                                                                         *)
(* A file is put on the store before the database names it, in two calls   *)
(* of which each may fail and between which the server may be restarted.   *)
(* A put that fails may leave an empty file.                               *)
(***************************************************************************)
EXTENDS Naturals, FiniteSets

CONSTANTS Messages,    \* messages that users or Neon may send
          Recordings,  \* those that are audio messages
          Spoken,      \* messageTTS: the codes and genders of the speech that
                       \* comes with a message of Neon
          Langs,       \* codes of the system, which clients use
          Sessions,    \* Socket.IO sessions
          Users,
          Uploads,     \* files chosen in the client
          NoUpload,    \* a user without an avatar
          MaxRequests, \* bound on different requests of sessions
          MaxFailures  \* bound on failing calls of the store or the database

\* LanguageSettings.to_neon_lang and to_system_lang
ToNeon(l) == IF l = "en" THEN "en-us" ELSE l
ToSystem(l) == IF l = "en-us" THEN "en" ELSE l

\* A language in the database: tts_response stores codes of the system,
\* user_message those of Neon as they come.  Genders besides "female" are
\* treated alike.
Codes == Langs \cup {ToNeon(l) : l \in Langs}
Genders == {"female", "undefined"}

ASSUME MediaAssumption == /\ Recordings \subseteq Messages
                          /\ Spoken \in [Messages -> SUBSET (Codes \X Genders)]
                          /\ \A m \in Recordings : Spoken[m] = {}
                          /\ NoUpload \notin Uploads
                          /\ "en" \in Langs /\ "en-us" \notin Langs
ASSUME BoundAssumption == MaxRequests \in Nat /\ MaxFailures \in Nat

\* Names on the store.  The name of an utterance is fixed by what it is.
Utterances == Messages \X Codes \X Genders
Names == [kind : {"speech"}, of : Utterances]
         \cup [kind : {"recording"}, of : Recordings]
         \cup [kind : {"upload"}, of : Uploads]
Speech(m, l, g) == [kind |-> "speech", of |-> <<m, l, g>>]
SpeechIn(A) == {[kind |-> "speech", of |-> a] : a \in A}
Recording(m) == [kind |-> "recording", of |-> m]
Upload(u) == [kind |-> "upload", of |-> u]

Wordings == {"original", "english"}
Contents == Wordings \cup {"empty", "data"}

VARIABLES wording,    \* database: message_text of each message, or "absent"
          audio,      \* database: names under audio.<lang>.<gender>
          attached,   \* database: attachments of each message
          avatar,     \* database: avatar of each user
          transcripts,\* database: messages with a transcript in English
          files,      \* the store: name -> content
          offered,    \* uploads that a client is about to send, by request
          asked,      \* requests on their way to Neon, for speech or a transcript
          heard,      \* what incoming_tts or incoming_stt gives whom, in the last step
          wanted,     \* history: requests of sessions
          worded,     \* history: wordings a message has had
          abandoned,  \* history: names whose save was not completed, or that
                      \* were replaced, translated or never sent
          failures

named    == <<audio, attached, avatar>>
database == <<wording, named, transcripts>>
history  == <<wanted, worded, abandoned>>
vars == <<database, files, offered, asked, heard, history, failures>>

Stored == {m \in Messages : wording[m] # "absent"}

\* A request to Neon carries the code that Neon uses.
Asked == [to : Sessions, of : Messages, lang : {ToNeon(l) : l \in Langs},
          says : Wordings \cup {"data"}]
Heard == [to : Sessions, of : Messages, lang : Langs, says : Wordings \cup {"data"}]
SpeechAsked == {r \in asked : r.of \notin Recordings}

TypeOK ==
    /\ wording \in [Messages -> Wordings \cup {"absent"}]
    /\ audio \subseteq Utterances
    /\ attached \in [Messages -> SUBSET Uploads]
    /\ avatar \in [Users -> Uploads \cup {NoUpload}]
    /\ transcripts \subseteq Recordings \cap Stored
    /\ DOMAIN files \subseteq Names /\ \A f \in DOMAIN files : files[f] \in Contents
    /\ offered \subseteq SUBSET Uploads
    /\ asked \subseteq Asked
    /\ heard \subseteq Heard
    /\ wanted \subseteq Sessions \X Messages \X Langs
    /\ worded \in [Messages -> SUBSET Wordings]
    /\ abandoned \subseteq Names
    /\ failures \in 0..MaxFailures

Init ==
    /\ wording = [m \in Messages |-> "absent"]
    /\ audio = {} /\ attached = [m \in Messages |-> {}]
    /\ avatar = [u \in Users |-> NoUpload] /\ transcripts = {}
    /\ files = [f \in {} |-> "empty"]
    /\ offered = {} /\ asked = {}
    /\ heard = {}
    /\ wanted = {}
    /\ worded = [m \in Messages |-> {}]
    /\ abandoned = {}
    /\ failures = 0

\* put_file_object
PutIn(store, names, content) ==
    [f \in DOMAIN store \cup names |-> IF f \in names THEN content ELSE store[f]]
Put(names, content) == PutIn(files, names, content)

\* A call fails, or the server is killed: before the put of f, while the put
\* has opened the file, or after it.
FailSaving(f, content) ==
    /\ failures < MaxFailures
    /\ failures' = failures + 1
    /\ files' \in {files, Put({f}, "empty"), Put({f}, content)}
    /\ abandoned' = IF f \in DOMAIN files' THEN abandoned \cup {f} ELSE abandoned

Silent == heard' = {}

\* A session asks, perhaps again.
Wants(s, m, l) == /\ wanted' = wanted \cup {<<s, m, l>>}
                  /\ Cardinality(wanted') <= MaxRequests

-----------------------------------------------------------------------------
(***************************************************************************)
(* Uploads                                                                 *)
(***************************************************************************)
Fresh(u) == Upload(u) \notin DOMAIN files
UploadsOf(U) == {Upload(u) : u \in U}

\* save_attachments: each file of the request is saved under a new name, and
\* the first one that cannot be saved fails the whole request ...
SaveAttachments(U) ==
    /\ \A u \in U : Fresh(u)
    /\ files' = Put(UploadsOf(U), "data")
    /\ offered' = offered \cup {U}
    /\ Silent
    /\ UNCHANGED <<database, asked, history, failures>>

\* ... so that the client sends no message, and the files saved before stay.
FailAttachments(U) ==
    /\ \A u \in U : Fresh(u)
    /\ failures < MaxFailures
    /\ failures' = failures + 1
    /\ \E done \in SUBSET U :
          /\ done # U
          /\ files' = Put(UploadsOf(done), "data")
          /\ abandoned' = abandoned \cup UploadsOf(done)
    /\ Silent
    /\ UNCHANGED <<database, offered, asked, wanted, worded>>

\* The message with the uploads is lost, refused, or never sent.
GiveUp(U) ==
    /\ U \in offered
    /\ offered' = offered \ {U}
    /\ abandoned' = abandoned \cup UploadsOf(U)
    /\ Silent
    /\ UNCHANGED <<database, files, asked, wanted, worded, failures>>

\* update_profile names the new avatar; the file of the old one stays.
UpdateAvatar(user, u) ==
    /\ Fresh(u)
    /\ files' = Put({Upload(u)}, "data")
    /\ avatar' = [avatar EXCEPT ![user] = u]
    /\ abandoned' = IF avatar[user] = NoUpload THEN abandoned
                    ELSE abandoned \cup {Upload(avatar[user])}
    /\ Silent
    /\ UNCHANGED <<wording, audio, attached, transcripts, offered, asked, wanted,
                   worded, failures>>

\* save_file fails, or the database does: the avatar stays as it was.
FailAvatar(u) ==
    /\ Fresh(u)
    /\ FailSaving(Upload(u), "data")
    /\ Silent
    /\ UNCHANGED <<database, offered, asked, wanted, worded>>

-----------------------------------------------------------------------------
(***************************************************************************)
(* Messages                                                                *)
(***************************************************************************)
Store(m, U) ==
    /\ wording' = [wording EXCEPT ![m] = "original"]
    /\ worded' = [worded EXCEPT ![m] = @ \cup {"original"}]
    /\ attached' = [attached EXCEPT ![m] = U]
    /\ offered' = offered \ {U}

\* user_message puts the recording, if it is one, and adds the shout; the
\* speech that comes with a message of Neon is saved one by one, under the
\* codes and genders that Neon gives.
Voiced(m, V) == {<<m, v[1], v[2]>> : v \in V}
UserMessage(m, U) ==
    /\ wording[m] = "absent"
    /\ Store(m, U)
    /\ IF m \in Recordings
       THEN files' = Put({Recording(m)}, "data") /\ UNCHANGED audio
       ELSE /\ audio' = audio \cup Voiced(m, Spoken[m])
            /\ files' = Put(SpeechIn(Voiced(m, Spoken[m])), "original")
    /\ Silent
    /\ UNCHANGED <<avatar, transcripts, asked, wanted, abandoned, failures>>

\* save_tts_response of speech v reports a failure that user_message does not
\* look at, so that others may be saved all the same; or the server is killed.
FailSpokenMessage(m, v) ==
    /\ wording[m] = "absent"
    /\ v \in Spoken[m]
    /\ Store(m, {})
    /\ failures < MaxFailures
    /\ failures' = failures + 1
    /\ \E done \in SUBSET (Spoken[m] \ {v}), left \in SUBSET {v},
          content \in {"empty", "original"} :
          /\ audio' = audio \cup Voiced(m, done)
          /\ files' = PutIn(Put(SpeechIn(Voiced(m, done)), "original"),
                           SpeechIn(Voiced(m, left)), content)
          /\ abandoned' = abandoned \cup SpeechIn(Voiced(m, left))
    /\ Silent
    /\ UNCHANGED <<avatar, transcripts, asked, wanted>>

\* Nothing is stored of a recording that could not be put.
FailRecording(m) ==
    /\ m \in Recordings
    /\ wording[m] = "absent"
    /\ FailSaving(Recording(m), "data")
    /\ Silent
    /\ UNCHANGED <<database, offered, asked, wanted, worded>>

\* save_translations of a message in another language to English.  A recording
\* is no exception: the name of its file is given to the translator, which may
\* change it, and is replaced by what comes back.
Translate(m) ==
    /\ wording[m] = "original"
    /\ wording' = [wording EXCEPT ![m] = "english"]
    /\ worded' = [worded EXCEPT ![m] = @ \cup {"english"}]
    /\ abandoned' = IF m \in Recordings THEN abandoned \cup {Recording(m)}
                    ELSE abandoned
    /\ Silent
    /\ UNCHANGED <<named, transcripts, files, offered, asked, wanted, failures>>

-----------------------------------------------------------------------------
(***************************************************************************)
(* Speech                                                                  *)
(***************************************************************************)

\* request_tts, with a file: only the female voice is looked for, and a file
\* that is empty is not played, nor asked for again.
PlayStored(s, m, l) ==
    /\ <<m, l, "female">> \in audio
    /\ Wants(s, m, l)
    /\ heard' = IF files[Speech(m, l, "female")] = "empty" THEN {}
                ELSE {[to |-> s, of |-> m, lang |-> l,
                       says |-> files[Speech(m, l, "female")]]}
    /\ UNCHANGED <<database, files, offered, asked, worded, abandoned, failures>>

\* request_tts, without one: Neon is asked to say message_text, whatever the
\* language of the voice.  The page offers it for written messages.
AskForSpeech(s, m, l) ==
    /\ wording[m] # "absent"
    /\ m \notin Recordings
    /\ <<m, l, "female">> \notin audio
    /\ Wants(s, m, l)
    /\ asked' = asked \cup {[to |-> s, of |-> m, lang |-> ToNeon(l),
                             says |-> wording[m]]}
    /\ Silent
    /\ UNCHANGED <<database, files, offered, worded, abandoned, failures>>

\* What the answer to r has saved, and what it tells the session.
SpeechOf(r, g) == Speech(r.of, ToSystem(r.lang), g)
HeardFrom(r, s) == [to |-> s, of |-> r.of, lang |-> ToSystem(r.lang), says |-> r.says]

\* Mutant: the answer goes to every session.
TtsResponseToAll(r, g) ==
    /\ r \in asked
    /\ asked' = asked \ {r}
    /\ files' = Put({SpeechOf(r, g)}, r.says)
    /\ audio' = audio \cup {SpeechOf(r, g).of}
    /\ heard' = {HeardFrom(r, s) : s \in Sessions}
    /\ UNCHANGED <<wording, attached, avatar, transcripts, offered, wanted, worded,
                   abandoned, failures>>

\* tts_response: save_tts_response overwrites the file of that name, names it
\* in the database, and the speech goes to the session that asked.
TtsResponse(r, g) ==
    /\ r \in asked
    /\ asked' = asked \ {r}
    /\ files' = Put({SpeechOf(r, g)}, r.says)
    /\ audio' = audio \cup {SpeechOf(r, g).of}
    /\ heard' = {HeardFrom(r, r.to)}
    /\ UNCHANGED <<wording, attached, avatar, transcripts, offered, wanted, worded,
                   abandoned, failures>>

\* Mutant: the database names the file although the put has failed.
FailTtsResponseNamed(r, g) ==
    /\ r \in asked
    /\ asked' = asked \ {r}
    /\ FailSaving(SpeechOf(r, g), r.says)
    /\ audio' = audio \cup {SpeechOf(r, g).of}
    /\ Silent
    /\ UNCHANGED <<wording, attached, avatar, transcripts, offered, wanted, worded>>

\* save_tts_response returns False; the session is told an error.
FailTtsResponse(r, g) ==
    /\ r \in asked
    /\ asked' = asked \ {r}
    /\ FailSaving(SpeechOf(r, g), r.says)
    /\ Silent
    /\ UNCHANGED <<database, offered, wanted, worded>>

\* The request or the answer is lost, or the answer has no audio.
LoseRequest(r) ==
    /\ r \in asked
    /\ asked' = asked \ {r}
    /\ Silent
    /\ UNCHANGED <<database, files, offered, history, failures>>

-----------------------------------------------------------------------------
(***************************************************************************)
(* Transcripts                                                             *)
(***************************************************************************)
Transcript(s, m) == [to |-> s, of |-> m, lang |-> "en", says |-> "data"]

\* request_stt of a message that is stored: its transcript or an error, but
\* Neon is not asked.
ReadTranscript(s, m) ==
    /\ wording[m] # "absent"
    /\ Wants(s, m, "en")
    /\ heard' = IF m \in transcripts THEN {Transcript(s, m)} ELSE {}
    /\ UNCHANGED <<database, files, offered, asked, worded, abandoned, failures>>

\* request_stt of a message that is not stored yet: the audio comes with the
\* request, for fetch_audio_data finds none.
AskForTranscript(s, m) ==
    /\ wording[m] = "absent"
    /\ Wants(s, m, "en")
    /\ asked' = asked \cup {[Transcript(s, m) EXCEPT !.lang = ToNeon("en")]}
    /\ Silent
    /\ UNCHANGED <<database, files, offered, worded, abandoned, failures>>

\* save_stt_response
SaveSttResponse(m) == transcripts' = transcripts \cup {m}

\* stt_response drops the transcript of a message that is still not stored.  A
\* transcript that could not be saved is given to the session all the same.
SttResponse(r) ==
    /\ r \in asked
    /\ asked' = asked \ {r}
    /\ IF wording[r.of] = "absent"
       THEN Silent /\ UNCHANGED <<transcripts, failures>>
       ELSE /\ heard' = {HeardFrom(r, r.to)}
            /\ \/ SaveSttResponse(r.of) /\ UNCHANGED failures
               \/ /\ failures < MaxFailures /\ failures' = failures + 1
                  /\ UNCHANGED transcripts
    /\ UNCHANGED <<wording, named, files, offered, history>>

Next ==
    \/ \E U \in (SUBSET Uploads) \ {{}} :
          SaveAttachments(U) \/ FailAttachments(U) \/ GiveUp(U)
    \/ \E u \in Uploads : \/ FailAvatar(u)
                          \/ \E user \in Users : UpdateAvatar(user, u)
    \/ \E m \in Messages : \/ \E U \in offered \cup {{}} : UserMessage(m, U)
                           \/ \E v \in Spoken[m] : FailSpokenMessage(m, v)
                           \/ FailRecording(m)
                           \/ Translate(m)
    \/ \E s \in Sessions, m \in Messages, l \in Langs :
          PlayStored(s, m, l) \/ AskForSpeech(s, m, l)
    \/ \E s \in Sessions, m \in Recordings :
          ReadTranscript(s, m) \/ AskForTranscript(s, m)
    \/ \E r \in asked : LoseRequest(r)
    \/ \E r \in asked \ SpeechAsked : SttResponse(r)
    \/ \E r \in SpeechAsked, g \in Genders :
          TtsResponse(r, g) \/ FailTtsResponse(r, g)

Spec == Init /\ [][Next]_vars

-----------------------------------------------------------------------------
(***************************************************************************)
(* Properties                                                              *)
(***************************************************************************)

\* What get_audio_message, get_message_attachment, get_avatar and request_tts
\* look for on the store: the name of a recording is the text of its message,
\* and speech is that of a female voice under a code of the system.
Sought == {a \in audio : a[2] \in Langs /\ a[3] = "female"}
NamedByMessage(m) ==
    {Upload(u) : u \in attached[m]}
    \cup (IF m \in Recordings /\ wording[m] = "original" THEN {Recording(m)} ELSE {})
NamedByUser(u) == IF avatar[u] = NoUpload THEN {} ELSE {Upload(avatar[u])}
Named == SpeechIn(Sought)
         \cup (UNION {NamedByMessage(m) : m \in Messages})
         \cup (UNION {NamedByUser(u) : u \in Users})

\* get_file_response
Found(f) == f \in DOMAIN files

\* Whatever call fails and wherever the server is killed, the database names no
\* file that was never put on the store: get_file_response finds them all, and
\* those a client is about to send.  (A recording whose message was translated
\* is not named any more.)
NamedFilesExist ==
    \A f \in Named \cup SpeechIn(audio) \cup UploadsOf(UNION offered) : Found(f)

\* What a session hears is speech it asked for, of that message and in that
\* language, and says a wording that message has had; what it reads is the
\* transcript of a recording it asked for and that is stored.  Names that files
\* share, answers that overtake each other or the message, and later
\* translations mix up nothing else.
HeardAsAsked ==
    \A h \in heard : /\ <<h.to, h.of, h.lang>> \in wanted
                     /\ h.of \in Stored
                     /\ h.says \in worded[h.of] \/ h.of \in Recordings

\* A file that nobody can reach was left by a save that failed, by a client
\* that gave up, by a new avatar or by a translation, or is speech that nobody
\* looks for: request_tts knows one gender, tts_response saves the one that
\* Neon names, and user_message saves under Neon's codes.
Unsought == SpeechIn(audio \ Sought)
OrphansHaveCause ==
    DOMAIN files \subseteq Named \cup UploadsOf(UNION offered) \cup abandoned
                          \cup Unsought

\* The store and the database account for each other, in both directions.
FilesAccountedFor == NamedFilesExist /\ OrphansHaveCause

\* What a comment in user_message says: the text of an audio message is the
\* name of the audio stored.
TextNamesRecording ==
    \A m \in Recordings : wording[m] \in {"absent", "original"}
=============================================================================
