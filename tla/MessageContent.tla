---------------------------- MODULE MessageContent ----------------------------
(***************************************************************************)
(* What of a message reaches the service.  A conversation is begun with    *)
(* merge_messages (transform.rs), which folds all messages of the request  *)
(* into one turn, and continued with bundle_user_messages (chat.rs), which *)
(* sends some of them, normalized; in a session, those whose digests are   *)
(* new (TurnPlanning).  The two read the same blocks by different code.    *)
(*                                                                         *)
(* Of a text is kept whether it is blank, of an id whether there is blank  *)
(* space around it; separators, prefixes and placeholder prompts are left  *)
(* out.  Every payload is a member of Values.                              *)
(***************************************************************************)
EXTENDS Naturals, Sequences, SequencesExt

CONSTANTS
    Values,      \* texts, data and file ids
    Blank,       \* the text, id or payload that is empty when it is trimmed
    Names,       \* file names
    NoName,      \* a block without a file name
    MaxBlocks    \* bound: blocks of the messages of a request

ASSUME ContentIsTyped ==
    Blank \notin Values /\ NoName \notin Names /\ MaxBlocks \in Nat

VARIABLES
    asked,  \* the messages of the last request
    got     \* what the service has got: the turns of the conversation

contentVars == <<asked, got>>

\* The content blocks that differ in how they are treated.  An image is data, a
\* data URL, a remote URL or the id of a file; image_url is OpenAI's form of the
\* URLs; "other" are tool calls and results, thinking, search results.
Kinds == {"text", "image", "dataUrl", "remoteUrl", "imageFile", "container",
          "textDocument", "fileDocument", "dataDocument", "urlDocument", "other"}

Named == {"textDocument", "dataDocument"}
WithId == {"imageFile", "container", "fileDocument"}
Trimmed == WithId \cup {"text", "textDocument", "dataDocument"}

Blocks == {b \in [kind : Kinds, value : Values \cup {Blank}, name : Names \cup {NoName}, padded : BOOLEAN] :
              /\ b.name # NoName => b.kind \in Named
              /\ b.value = Blank => b.kind \in Trimmed
              /\ b.padded => b.kind \in WithId /\ b.value # Blank}

\* A message is a list of blocks; one that is a text is as one text block.
Messages == UNION {[1..k -> Blocks] : k \in 1..MaxBlocks}

\* Pieces of content as the service gets them.
Text(v) == [type |-> "text", value |-> v]
Attachment(v, name) == [type |-> "attachment", value |-> v, name |-> name]
Paste(texts) == [type |-> "paste", texts |-> texts]
Data(v, name) == [type |-> "data", value |-> v, name |-> name]
File(id, padded) == [type |-> "file", value |-> id, padded |-> padded]

-----------------------------------------------------------------------------
(* Sessions: normalize_explicit_message                                    *)

\* What is neither content of a turn nor blank is refused, never dropped.
Refuses(b) ==
    \/ b.kind \in {"remoteUrl", "urlDocument", "other"}
    \/ b.kind \in Trimmed \ {"text"} /\ b.value = Blank

NormalizedBlock(b) ==
    CASE b.kind = "text" -> IF b.value = Blank THEN <<>> ELSE <<Text(b.value)>>
      [] b.kind \in {"image", "dataUrl"} -> <<Data(b.value, NoName)>>
      [] b.kind = "dataDocument" -> <<Data(b.value, b.name)>>
      [] b.kind = "textDocument" -> <<Attachment(b.value, b.name)>>
      [] OTHER -> <<File(b.value, FALSE)>>

Normalized(m) == FlattenSeq([i \in DOMAIN m |-> NormalizedBlock(m[i])])

Accepted(m) == (\A i \in DOMAIN m : ~Refuses(m[i])) /\ Normalized(m) # <<>>

\* digest_message: the normalized blocks, in order.
Digest(m) == Normalized(m)

-----------------------------------------------------------------------------
(* Beginning a conversation: merge_messages                                *)

\* Faulty variant: uploads to the container are passed over.
MergedBlockOutsideContainer(b) ==
    IF b.kind \in {"remoteUrl", "urlDocument", "other", "container"} THEN <<>> ELSE NormalizedBlock(b)

\* What cannot be sent is dropped here.  The id of a file is trimmed in a
\* document only.
MergedBlock(b) ==
    CASE b.kind \in {"remoteUrl", "urlDocument", "other"} -> <<>>
      [] b.kind \in {"imageFile", "container"} -> <<File(b.value, b.padded)>>
      [] b.kind \in {"textDocument", "fileDocument", "dataDocument"} /\ b.value = Blank -> <<>>
      [] OTHER -> NormalizedBlock(b)

\* The pieces of some types, in order.
Of(types, pieces) ==
    FlattenSeq([i \in DOMAIN pieces |-> IF pieces[i].type \in types THEN <<pieces[i]>> ELSE <<>>])

\* A turn: its texts, its attachments, and the files to be uploaded for it.
TurnOf(pieces) ==
    [texts |-> Of({"text"}, pieces), attachments |-> Of({"attachment"}, pieces),
     files |-> Of({"data", "file"}, pieces)]

Merged(messages) ==
    TurnOf(FlattenSeq([i \in DOMAIN messages |->
             FlattenSeq([k \in DOMAIN messages[i] |-> MergedBlock(messages[i][k])])]))

-----------------------------------------------------------------------------
(* Continuing it: bundle_user_messages                                     *)

\* Long text, all of it, is sent as one more attachment.
Bundled(messages, long) ==
    LET turn == TurnOf(FlattenSeq([i \in DOMAIN messages |-> Normalized(messages[i])]))
    IN  IF ~long \/ turn.texts = <<>> THEN turn
        ELSE [turn EXCEPT !.texts = <<>>, !.attachments = Append(@, Paste(turn.texts))]

-----------------------------------------------------------------------------
(* Uploads: upload_files                                                   *)

\* Data is uploaded under its name, or one chosen by its media type.  The id of a
\* staged file stands for its upload (StagedFiles) and any other for itself, but
\* not with blank space around it.
Uploaded(piece) ==
    CASE piece.type = "data" -> [value |-> piece.value, name |-> piece.name]
      [] piece.type = "file" /\ ~piece.padded -> [value |-> piece.value, name |-> NoName]
      [] OTHER -> [value |-> Blank, name |-> NoName]

-----------------------------------------------------------------------------
(* Requests of a session                                                   *)

AcceptedMessages == {m \in Messages : Accepted(m)}

BlocksOf(messages) == Len(FlattenSeq(messages))

\* A message with one block written in another way, or left out.
Rewritten(m) ==
    {[m EXCEPT ![k] = b] : k \in DOMAIN m, b \in Blocks} \cup {RemoveAt(m, k) : k \in DOMAIN m}

InitContent == asked = <<>> /\ got = <<>>

\* A request without a session begins a conversation, with one message or two.
SendFull ==
    /\ got = <<>>
    /\ \E m \in Messages : \E k \in 0..Len(m) - 1 :
        LET messages == IF k = 0 THEN <<m>> ELSE <<SubSeq(m, 1, k), SubSeq(m, k + 1, Len(m))>>
        IN  /\ \A i \in DOMAIN messages : Accepted(messages[i])
            /\ asked' = messages /\ got' = <<Merged(messages)>>

\* A request that repeats the messages and adds one continues it.
SendIncremental ==
    /\ got # <<>> /\ BlocksOf(asked) < MaxBlocks
    /\ \E m \in AcceptedMessages, long \in BOOLEAN :
        /\ BlocksOf(asked) + Len(m) <= MaxBlocks
        /\ asked' = Append(asked, m) /\ got' = Append(got, Bundled(<<m>>, long))

\* A request is known by its digests, so the client may write its messages in
\* another way, and nothing of them is sent again.
Repeat ==
    /\ \E i \in DOMAIN asked :
        \E m \in Rewritten(asked[i]) :
            /\ Accepted(m) /\ Digest(m) = Digest(asked[i])
            /\ asked' = [asked EXCEPT ![i] = m]
    /\ UNCHANGED got

\* The last turn is sent again.  The first, too, is now sent as a continuation.
SendIncrementalFork ==
    /\ got # <<>>
    /\ \E long \in BOOLEAN :
        LET first == IF Len(got) = 1 THEN 1 ELSE Len(asked)
        IN  got' = Front(got) \o <<Bundled(SubSeq(asked, first, Len(asked)), long)>>
    /\ UNCHANGED asked

\* A session that is reset is sent the request as a whole.
Rebuild ==
    /\ got # <<>>
    /\ got' = <<Merged(asked)>>
    /\ UNCHANGED asked

NextContent == SendFull \/ SendIncremental \/ SendIncrementalFork \/ Repeat \/ Rebuild

ContentSpec == InitContent /\ [][NextContent]_contentVars

-----------------------------------------------------------------------------
(* Properties                                                              *)

\* The reference: what messages say, by kinds of blocks.
SaidIn(b, kinds) ==
    IF b.kind \in kinds /\ b.value # Blank THEN <<[value |-> b.value, name |-> b.name]>> ELSE <<>>

Said(messages, kinds) ==
    LET blocks == FlattenSeq(messages)
    IN  FlattenSeq([i \in DOMAIN blocks |-> SaidIn(blocks[i], kinds)])

\* The texts that were sent as attachments.
Pasted(attachments) ==
    FlattenSeq([i \in DOMAIN attachments |->
        IF attachments[i].type = "paste" THEN attachments[i].texts ELSE <<>>])

\* What the service has got by all turns.
GotTexts ==
    LET all == FlattenSeq([i \in DOMAIN got |-> got[i].texts \o Pasted(got[i].attachments)])
    IN  [i \in DOMAIN all |-> [value |-> all[i].value, name |-> NoName]]

GotAttachments ==
    LET all == FlattenSeq([i \in DOMAIN got |-> Of({"attachment"}, got[i].attachments)])
    IN  [i \in DOMAIN all |-> [value |-> all[i].value, name |-> all[i].name]]

GotFiles ==
    LET all == FlattenSeq([i \in DOMAIN got |-> got[i].files])
    IN  [i \in DOMAIN all |-> Uploaded(all[i])]

\* An id with blank space around it, which was sent as it is.
Untrimmed == got # <<>> /\ \E f \in ToSet(got[1].files) : f.type = "file" /\ f.padded

\* What a session accepts is sent as a whole, once, in order and by name: what the
\* service has got is what the last request says, whichever of the two ways each
\* message was sent by, after every reset, and when the request has other blocks
\* with the same digests, which are not sent again.  (Not so for file ids in blank
\* space that began the conversation.)
SentAsAWhole ==
    ~Untrimmed =>
        /\ GotTexts = Said(asked, {"text"})
        /\ GotAttachments = Said(asked, {"textDocument"})
        /\ GotFiles = Said(asked, Kinds \ {"text", "textDocument"})
=============================================================================
