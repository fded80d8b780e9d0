------------------------------- MODULE Media -------------------------------
(***************************************************************************)
(* media.py: which inbound attachment is relayed as audio, and which       *)
(* outbound media become files.  A content type is "audio" if the table    *)
(* has it, "3gpp" if the table says it is unsupported, "audio/other" or    *)
(* "other"; likewise the suffix of the file name, "3gp" being unsupported. *)
(* Bytes are their number.                                                 *)
(***************************************************************************)
EXTENDS Naturals, Sequences, FiniteSetsExt

CONSTANT Nothing

Ref == [type : {"audio", "3gpp", "audio/other", "other"}, suffix : {"audio", "3gp", "other"},
        declared : Nat \cup {Nothing}, bytes : Nat]
Response == [https : BOOLEAN, ok : BOOLEAN, declared : Nat \cup {Nothing},
             parts : Seq(Nat), breaks : BOOLEAN]
Payload == [valid : BOOLEAN, bytes : Nat]

ASSUME NothingAssumption == Nothing \notin Nat \cup Ref \cup Response \cup Payload

IsAudio(ref) ==
    ref.type \in {"audio", "3gpp", "audio/other"} \/ ref.suffix \in {"audio", "3gp"}

(* select_inbound_audio.                                                   *)
FirstAudio(refs) ==
    LET audio == {k \in DOMAIN refs : IsAudio(refs[k])}
    IN  IF audio = {} THEN Nothing ELSE refs[Min(audio)]

(* _audio_format: the type decides if the table has it, else the suffix.   *)
Supported(ref) ==
    \/ ref.type = "audio"
    \/ ref.type # "3gpp" /\ ref.suffix # "3gp"

FetchTrusting(ref, max) ==      \* mutant: the declared size is believed
    IF ~Supported(ref) \/ (ref.declared # Nothing /\ ref.declared > max) \/ ref.bytes = 0
    THEN Nothing ELSE ref.bytes

(* fetch_inbound_audio; the size may be declared, the bytes are what came. *)
Fetch(ref, max) ==
    IF \/ ~Supported(ref)
       \/ ref.declared # Nothing /\ ref.declared > max
       \/ ref.bytes = 0 \/ ref.bytes > max
    THEN Nothing ELSE ref.bytes

(* What _relay makes of the attachments of a message.                      *)
InboundAudio(refs, max) ==
    IF FirstAudio(refs) = Nothing THEN Nothing ELSE Fetch(FirstAudio(refs), max)

----------------------------------------------------------------------------
(* The bytes read from a response until there are too many or no more.     *)
Read(parts, max) ==
    LET read[k \in 0 .. Len(parts)] ==
            IF k = 0 THEN 0
            ELSE IF read[k - 1] > max THEN read[k - 1] ELSE read[k - 1] + parts[k]
    IN  read[Len(parts)]

DownloadCut(d, max) ==          \* mutant: what exceeds the cap is cut off
    LET n == Read(d.parts, max)
    IN  IF ~d.https \/ ~d.ok \/ (n <= max /\ d.breaks) THEN Nothing
        ELSE IF n > max THEN max ELSE n

(* download_to_temp; the declared length may be nonsense.                  *)
Download(d, max) ==
    LET n == Read(d.parts, max)
    IN  IF \/ ~d.https \/ ~d.ok
           \/ d.declared # Nothing /\ d.declared > max
           \/ n > max \/ d.breaks
        THEN Nothing ELSE n

(* decode_base64_to_temp.                                                  *)
Decode(payload, max) ==
    IF ~payload.valid \/ payload.bytes = 0 \/ payload.bytes > max THEN Nothing ELSE payload.bytes

(* _deliver_voice_note: the file it sends comes from the URL, else from    *)
(* the payload.                                                            *)
VoiceFile(d, payload, max) ==
    IF d # Nothing /\ Download(d, max) # Nothing THEN Download(d, max)
    ELSE IF payload # Nothing THEN Decode(payload, max) ELSE Nothing
=============================================================================
