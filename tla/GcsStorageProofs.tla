-------------------------- MODULE GcsStorageProofs --------------------------
(* GcsRapidStorage, for any units, any length of the object and any number *)
(* of attempts: the types, that the object is what was appended as far as  *)
(* it goes, and that the storage is an AppendOnlyObject.                   *)
EXTENDS GcsStorage, SequenceTheorems, TLAPS

(* Each piece of a session's contents is found at its place among what was *)
(* appended: persisted at the front, then, perhaps after pieces that were  *)
(* lost, what is buffered.                                                 *)
StoredFits == \A i \in 1 .. Len(stored) : stored[i] = appended[i]
SentFits == \A i \in 1 .. Len(sent) : sent[i] = appended[Len(stored) + i]
BufferFits == \A i \in 1 .. Len(buffer) :
                  buffer[i] = appended[Len(appended) - Len(buffer) + i]

Fits ==
    /\ fileLength = Len(appended)
    /\ Len(buffer) <= Len(appended)
    /\ Len(stored) + Len(sent) <= Len(appended) - Len(buffer)
    /\ StoredFits /\ SentFits /\ BufferFits

(* Nothing handed over has been lost, or nothing more will arrive.         *)
Whole ==
    connected /\ (tokenValid \/ pc = "writing" \/ ~failed) =>
        Len(stored) + Len(sent) = Len(appended) - Len(buffer)

(* Where no Sync has failed, all that was handed over is persisted.        *)
Settled ==
    ~failed /\ pc \in {"ready", "reading", "copied"} =>
        Len(stored) = Len(appended) - Len(buffer)

Token ==
    /\ pc = "flushing" \/ (~failed /\ pc \in {"ready", "reading", "copied"}) => tokenValid
    /\ pc = "refused" => failed
    /\ pc = "writing" => ~tokenValid

HandedOver == pc \in {"writing", "refused", "flushing", "closing"} => buffer = <<>>

ReadInRange ==
    pc \in {"reading", "copied"} =>
        /\ request.at + request.size <= fileLength
        /\ pc = "reading" => request.at < BufferStart /\ request.attempts < MaxAttempts

Session ==
    InSession => Fits /\ Whole /\ Settled /\ Token /\ HandedOver /\ ReadInRange

Outside ==
    /\ ~InSession => /\ buffer = <<>> /\ appended = <<>> /\ ~failed /\ fileLength = 0
    /\ pc \in {"uploading", "created"} =>
           sent = <<>> /\ tokenValid /\ initialOffset = Len(stored)

Sequenced ==
    /\ stored \in Seq(Units) /\ sent \in Seq(Units) /\ buffer \in Seq(Units)
    /\ appended \in Seq(Units) /\ acked \in Seq(Units) /\ claimed \in Seq(Units)
    /\ result \in Seq(Units)
    /\ Len(stored) + Len(sent) <= MaxLength
    /\ Len(appended) <= MaxLength /\ Len(acked) <= MaxLength /\ Len(claimed) <= MaxLength
    /\ Len(result) <= MaxLength

Typed ==
    /\ exists \in BOOLEAN /\ connected \in BOOLEAN /\ tokenValid \in BOOLEAN
    /\ failed \in BOOLEAN
    /\ pc \in {"none", "found", "notFound", "uploading", "created", "ready", "writing",
               "refused", "flushing", "reading", "copied", "closing"}
    /\ initialOffset \in 0 .. MaxLength /\ fileLength \in 0 .. MaxLength
    /\ descriptor \in {NoDescriptor} \cup 0 .. MaxLength
    /\ request \in [at : 0 .. MaxLength, size : 0 .. MaxLength, attempts : 0 .. MaxAttempts]

(* What was acknowledged is at the front of the object.                    *)
Acked == Len(acked) <= Len(stored) /\ \A i \in 1 .. Len(acked) : acked[i] = stored[i]

ReadRight ==
    pc = "copied" =>
        /\ Len(result) = request.size
        /\ \A i \in 1 .. request.size : result[i] = appended[request.at + i]

Inv == Sequenced /\ Typed /\ Outside /\ Session /\ Acked /\ ReadRight

-----------------------------------------------------------------------------
LEMMA InitInv == Init => Inv
<1> SUFFICES ASSUME Init PROVE Inv
    OBVIOUS
<1>1. Sequenced
    BY GcsAssumption, EmptySeq DEF Init, Sequenced
<1>2. Typed
    <2>1. NoRequest \in [at : 0 .. MaxLength, size : 0 .. MaxLength, attempts : 0 .. MaxAttempts]
        BY GcsAssumption DEF NoRequest
    <2>2. request \in [at : 0 .. MaxLength, size : 0 .. MaxLength, attempts : 0 .. MaxAttempts]
        BY <2>1 DEF Init
    <2>3. initialOffset \in 0 .. MaxLength /\ fileLength \in 0 .. MaxLength
        BY GcsAssumption DEF Init
    <2>4. {exists, connected, tokenValid, failed} \subseteq BOOLEAN
        BY DEF Init
    <2> QED
        BY <2>2, <2>3, <2>4, Zenon DEF Init, Typed
<1>3. Outside /\ Session /\ Acked /\ ReadRight
    BY EmptySeq DEF Init, Outside, Session, InSession, Acked, ReadRight
<1> QED
    BY <1>1, <1>2, <1>3 DEF Inv

LEMMA PersistInv == Inv /\ Persist => Inv'
<1> SUFFICES ASSUME Inv, Persist PROVE Inv'
    OBVIOUS
<1>1. /\ stored' \in Seq(Units) /\ sent' \in Seq(Units)
      /\ Len(stored') = Len(stored) + 1 /\ Len(sent') = Len(sent) - 1
      /\ Len(sent) > 0
      /\ \A i \in 1 .. Len(stored) : stored'[i] = stored[i]
      /\ stored'[Len(stored) + 1] = sent[1]
      /\ \A i \in 1 .. Len(sent') : sent'[i] = sent[i + 1]
    <2>1. Head(sent) = sent[1] /\ Head(sent) \in Units
        BY HeadTailProperties DEF Inv, Sequenced, Persist
    <2> QED
        BY <2>1, HeadTailProperties, AppendProperties, EmptySeq DEF Inv, Sequenced, Persist
<1>2. Sequenced' /\ Typed'
    BY <1>1, GcsAssumption
       DEF Inv, Sequenced, Typed, Persist, client, history
<1>3. Outside'
    BY <1>1, EmptySeq DEF Inv, Outside, Persist, InSession, client, history, Sequenced
<1>4. Session'
    <2> SUFFICES ASSUME InSession PROVE Session'
        BY DEF Session, InSession, Persist
    <2>1. Fits'
        <3>1. SentFits'
            <4> SUFFICES ASSUME NEW i \in 1 .. Len(sent')
                         PROVE  sent'[i] = appended'[Len(stored') + i]
                BY DEF SentFits
            <4>1. i + 1 \in 1 .. Len(sent) /\ Len(stored') + i = Len(stored) + (i + 1)
                BY <1>1 DEF Inv, Sequenced
            <4> QED
                BY <1>1, <4>1 DEF Inv, Session, Fits, SentFits, Persist, history
        <3>2. StoredFits'
            <4> SUFFICES ASSUME NEW i \in 1 .. Len(stored')
                         PROVE  stored'[i] = appended'[i]
                BY DEF StoredFits
            <4>1. CASE i <= Len(stored)
                BY <1>1, <4>1 DEF Inv, Session, Fits, StoredFits, Persist, history, Sequenced
            <4>2. CASE i = Len(stored) + 1
                BY <1>1, <4>2 DEF Inv, Session, Fits, SentFits, Persist, history, Sequenced
            <4> QED
                BY <4>1, <4>2, <1>1 DEF Inv, Sequenced
        <3> QED
            BY <1>1, <3>1, <3>2
               DEF Inv, Session, Fits, BufferFits, Persist, client, history, Sequenced
    <2> QED
        BY <1>1, <2>1
           DEF Inv, Session, Fits, Whole, Settled, Token, HandedOver, ReadInRange, Persist,
               client, history, Sequenced, BufferStart
<1>5. Acked'
    BY <1>1 DEF Inv, Acked, Persist, history, Sequenced
<1>6. ReadRight'
    BY DEF Inv, ReadRight, Persist, client, history
<1> QED
    BY <1>2, <1>3, <1>4, <1>5, <1>6 DEF Inv

LEMMA BreakInv == Inv /\ Break => Inv'
<1> SUFFICES ASSUME Inv, Break PROVE Inv'
    OBVIOUS
<1>0. Sequenced'
    BY EmptySeq, LenProperties, GcsAssumption DEF Inv, Sequenced, Break, client, history
<1>1. Typed' /\ Acked' /\ ReadRight'
    BY DEF Inv, Typed, Acked, ReadRight, Break, client, history
<1>2. Outside'
    BY DEF Inv, Outside, Break, InSession, client, history
<1>3. Session'
    BY EmptySeq
       DEF Inv, Session, InSession, Fits, StoredFits, SentFits, BufferFits, Whole, Settled,
           Token, HandedOver, ReadInRange, BufferStart, Break, client, history, Sequenced
<1> QED
    BY <1>0, <1>1, <1>2, <1>3 DEF Inv

-----------------------------------------------------------------------------
(* Create.                                                                 *)

LEMMA GetMetadataInv == Inv /\ GetMetadata => Inv'
<1> SUFFICES ASSUME Inv, GetMetadata PROVE Inv'
    OBVIOUS
<1>1. initialOffset' \in 0 .. MaxLength /\ pc' \in {"found", "notFound"} /\ pc = "none"
    BY GcsAssumption, LenProperties DEF Inv, Sequenced, GetMetadata
<1>2. Sequenced' /\ Acked'
    BY DEF Inv, Sequenced, Acked, GetMetadata, service, history
<1>3. Typed' /\ Outside' /\ Session' /\ ReadRight'
    BY <1>1 DEF Inv, Typed, Outside, Session, ReadRight, InSession, GetMetadata, service, history
<1> QED
    BY <1>2, <1>3 DEF Inv

LEMMA OpenUploadInv == Inv /\ OpenUpload => Inv'
<1> SUFFICES ASSUME Inv, OpenUpload PROVE Inv'
    OBVIOUS
<1>1. /\ pc \in {"found", "notFound"} /\ pc' \in {"uploading", "created"}
      /\ initialOffset' = Len(stored) /\ Len(stored) \in 0 .. MaxLength
    BY LenProperties, GcsAssumption DEF Inv, Sequenced, OpenUpload
<1>2. Sequenced' /\ Acked'
    BY EmptySeq, LenProperties, GcsAssumption DEF Inv, Sequenced, Acked, OpenUpload, history
<1>3. Typed' /\ Outside' /\ Session' /\ ReadRight'
    BY <1>1 DEF Inv, Typed, Outside, Session, ReadRight, InSession, OpenUpload, history
<1> QED
    BY <1>2, <1>3 DEF Inv

LEMMA OpenDescriptorInv == Inv /\ OpenDescriptor => Inv'
<1> SUFFICES ASSUME Inv, OpenDescriptor PROVE Inv'
    OBVIOUS
<1>1. pc = "uploading" /\ pc' = "created" /\ descriptor' \in 0 .. MaxLength
    BY LenProperties, GcsAssumption DEF Inv, Sequenced, OpenDescriptor
<1>2. Sequenced' /\ Acked'
    BY DEF Inv, Sequenced, Acked, OpenDescriptor, service, history
<1>3. Typed' /\ Session' /\ ReadRight'
    BY <1>1 DEF Inv, Typed, Session, ReadRight, InSession, OpenDescriptor, service, history
<1>4. Outside'
    BY <1>1 DEF Inv, Outside, InSession, OpenDescriptor, service, history
<1> QED
    BY <1>2, <1>3, <1>4 DEF Inv

LEMMA ConstructInv == Inv /\ Construct => Inv'
<1> SUFFICES ASSUME Inv, Construct PROVE Inv'
    OBVIOUS
<1>1. /\ pc = "created" /\ pc' = "ready" /\ initialOffset = Len(stored) /\ sent = <<>>
      /\ appended' = stored /\ fileLength' = Len(stored) /\ buffer = <<>> /\ tokenValid
      /\ ~failed
    BY DEF Inv, Outside, Construct, InSession
<1>2. Sequenced' /\ Acked'
    BY LenProperties, GcsAssumption DEF Inv, Sequenced, Acked, Construct, service, history
<1>3. Typed' /\ Outside' /\ ReadRight'
    BY <1>1 DEF Inv, Typed, Outside, ReadRight, InSession, Construct, service
<1>4. Fits'
    BY <1>1, EmptySeq, LenProperties
       DEF Inv, Sequenced, Fits, StoredFits, SentFits, BufferFits, Construct, service
<1>5. (Whole /\ Settled /\ Token /\ HandedOver /\ ReadInRange)'
    BY <1>1, EmptySeq, LenProperties
       DEF Inv, Sequenced, Whole, Settled, Token, HandedOver, ReadInRange, Construct, service
<1> QED
    BY <1>2, <1>3, <1>4, <1>5 DEF Inv, Session

(* A session ends, or its process dies.                                    *)
LEMMA ForgetInv == Inv /\ Forget /\ UNCHANGED service => Inv'
<1> SUFFICES ASSUME Inv, Forget, UNCHANGED service PROVE Inv'
    OBVIOUS
<1>1. Sequenced' /\ Acked'
    BY EmptySeq, LenProperties, GcsAssumption DEF Inv, Sequenced, Acked, Forget, service
<1>2. Typed'
    <2>1. request' \in [at : 0 .. MaxLength, size : 0 .. MaxLength, attempts : 0 .. MaxAttempts]
        BY GcsAssumption DEF NoRequest, Forget
    <2>2. initialOffset' \in 0 .. MaxLength /\ fileLength' \in 0 .. MaxLength
        BY GcsAssumption DEF Forget
    <2>3. {exists', connected', tokenValid', failed'} \subseteq BOOLEAN
        BY DEF Forget, service, Inv, Typed
    <2> QED
        BY <2>1, <2>2, <2>3, Zenon DEF Forget, Typed
<1>3. Outside' /\ Session' /\ ReadRight'
    BY DEF Outside, Session, ReadRight, InSession, Forget
<1> QED
    BY <1>1, <1>2, <1>3 DEF Inv

-----------------------------------------------------------------------------
(* Append and Sync.                                                        *)

LEMMA AppendInv ==
    ASSUME Inv, NEW u \in Units, AppendUnits(<<u>>)
    PROVE  Inv'
<1>1. /\ pc = "ready" /\ pc' = "ready" /\ Len(appended) + 1 <= MaxLength
      /\ buffer' = buffer \o <<u>> /\ appended' = appended \o <<u>>
      /\ fileLength' = fileLength + 1
      /\ <<u>> \in Seq(Units) /\ Len(<<u>>) = 1 /\ <<u>>[1] = u
    BY DEF AppendUnits
<1>2. /\ buffer' \in Seq(Units) /\ Len(buffer') = Len(buffer) + 1
      /\ \A i \in 1 .. Len(buffer) : buffer'[i] = buffer[i]
      /\ buffer'[Len(buffer) + 1] = u
    BY <1>1, ConcatProperties, LenProperties DEF Inv, Sequenced
<1>3. /\ appended' \in Seq(Units) /\ Len(appended') = Len(appended) + 1
      /\ \A i \in 1 .. Len(appended) : appended'[i] = appended[i]
      /\ appended'[Len(appended) + 1] = u
    BY <1>1, ConcatProperties, LenProperties DEF Inv, Sequenced
<1>4. Sequenced' /\ Acked'
    BY <1>1, <1>2, <1>3 DEF Inv, Sequenced, Acked, AppendUnits, service
<1>5. Fits
    BY <1>1 DEF Inv, Session, InSession
<1>6. Typed' /\ Outside' /\ ReadRight'
    BY <1>1, <1>3, <1>5, GcsAssumption, LenProperties
       DEF Inv, Sequenced, Fits, Typed, Outside, ReadRight, InSession, AppendUnits, service
<1>7. Fits'
    <2>1. BufferFits'
        <3> SUFFICES ASSUME NEW i \in 1 .. Len(buffer')
                     PROVE  buffer'[i] = appended'[Len(appended') - Len(buffer') + i]
            BY DEF BufferFits
        <3>1. CASE i = Len(buffer) + 1
            BY <1>2, <1>3, <3>1, LenProperties DEF Inv, Sequenced
        <3>2. CASE i <= Len(buffer)
            <4>1. Len(appended) - Len(buffer) + i \in 1 .. Len(appended)
                BY <1>5, <3>2, LenProperties DEF Inv, Sequenced, Fits
            <4>2. Len(appended') - Len(buffer') + i = Len(appended) - Len(buffer) + i
                BY <1>2, <1>3, LenProperties DEF Inv, Sequenced
            <4>3. buffer[i] = appended[Len(appended) - Len(buffer) + i]
                BY <1>5, <3>2, LenProperties DEF Inv, Sequenced, Fits, BufferFits
            <4>4. buffer'[i] = buffer[i]
                BY <1>2, <3>2
            <4>5. appended'[Len(appended) - Len(buffer) + i] = appended[Len(appended) - Len(buffer) + i]
                BY <1>3, <4>1
            <4> QED
                BY <4>2, <4>3, <4>4, <4>5
        <3> QED
            BY <1>2, <3>1, <3>2, LenProperties DEF Inv, Sequenced
    <2>2. StoredFits'
        BY <1>3, <1>5, LenProperties
           DEF Inv, Sequenced, Fits, StoredFits, AppendUnits, service
    <2>3. SentFits'
        <3>1. stored' = stored /\ sent' = sent
            BY DEF AppendUnits, service
        <3>2. SentFits /\ Len(stored) + Len(sent) <= Len(appended)
              /\ Len(stored) \in Nat /\ Len(sent) \in Nat /\ Len(appended) \in Nat
            BY <1>5, LenProperties DEF Inv, Sequenced, Fits
        <3>3. \A i \in 1 .. Len(sent) : Len(stored) + i \in 1 .. Len(appended)
            BY ONLY <3>2
        <3> QED
            BY ONLY <1>3, <3>1, <3>2, <3>3 DEF SentFits
    <2> QED
        BY <2>1, <2>2, <2>3, <1>1, <1>2, <1>3, <1>5, LenProperties
           DEF Inv, Sequenced, Fits, AppendUnits, service
<1>8. Len(appended') - Len(buffer') = Len(appended) - Len(buffer)
    BY <1>2, <1>3, LenProperties DEF Inv, Sequenced
<1>9. Whole /\ Settled /\ Token
    BY <1>1 DEF Inv, Session, InSession
<1>10. Whole' /\ Settled' /\ Token'
    BY <1>1, <1>8, <1>9 DEF Whole, Settled, Token, AppendUnits, service
<1>11. HandedOver' /\ ReadInRange'
    BY <1>1 DEF HandedOver, ReadInRange
<1> QED
    BY <1>4, <1>6, <1>7, <1>10, <1>11 DEF Inv, Session

(* What a Sync or the destructor hands over follows what is on its way, if *)
(* anything reaches the stream.                                            *)
LEMMA HandOverFits ==
    ASSUME Inv, InSession, HandOver, UNCHANGED <<fileLength, appended, failed>>
    PROVE  /\ sent' \in Seq(Units) /\ buffer' = <<>> /\ ~tokenValid'
           /\ connected' = connected /\ stored' = stored
           /\ Len(stored') + Len(sent') <= MaxLength
           /\ Fits'
           /\ connected /\ tokenValid =>
                  Len(stored') + Len(sent') = Len(appended') - Len(buffer')
<1>1. Fits /\ Whole /\ Settled /\ Token
    BY DEF Inv, Session
<1>2. CASE tokenValid /\ connected
    <2>1. /\ sent' = sent \o buffer /\ sent' \in Seq(Units)
          /\ Len(sent') = Len(sent) + Len(buffer)
          /\ \A i \in 1 .. Len(sent) : sent'[i] = sent[i]
          /\ \A i \in Len(sent) + 1 .. Len(sent) + Len(buffer) : sent'[i] = buffer[i - Len(sent)]
        BY <1>2, ConcatProperties, LenProperties DEF Inv, Sequenced, HandOver
    <2>2. Len(stored) + Len(sent) = Len(appended) - Len(buffer)
        BY <1>1, <1>2 DEF Whole
    <2>3. SentFits'
        <3> SUFFICES ASSUME NEW i \in 1 .. Len(sent')
                     PROVE  sent'[i] = appended'[Len(stored') + i]
            BY DEF SentFits
        <3>1. CASE i <= Len(sent)
            <4>1. i \in 1 .. Len(sent)
                BY <2>1, <3>1, LenProperties DEF Inv, Sequenced
            <4>2. sent'[i] = sent[i] /\ sent[i] = appended[Len(stored) + i]
                BY <1>1, <2>1, <4>1 DEF Fits, SentFits
            <4> QED
                BY <4>2 DEF HandOver
        <3>2. CASE i > Len(sent)
            <4>1. i - Len(sent) \in 1 .. Len(buffer)
                BY <2>1, <3>2, LenProperties DEF Inv, Sequenced
            <4>0. /\ Len(appended) \in Nat /\ Len(buffer) \in Nat /\ Len(stored) \in Nat
                  /\ Len(sent) \in Nat /\ i \in Int
                BY LenProperties DEF Inv, Sequenced
            <4>2. Len(appended) - Len(buffer) + (i - Len(sent)) = Len(stored) + i
                BY <2>2, <4>0
            <4>3. buffer[i - Len(sent)] = appended[Len(stored) + i]
                BY <1>1, <4>1, <4>2 DEF Fits, BufferFits
            <4>4. sent'[i] = buffer[i - Len(sent)]
                BY <2>1, <3>2, LenProperties DEF Inv, Sequenced
            <4> QED
                BY <4>3, <4>4 DEF HandOver
        <3> QED
            BY <2>1, <3>1, <3>2, LenProperties DEF Inv, Sequenced
    <2>4. StoredFits' /\ BufferFits'
        BY <1>1, EmptySeq DEF Fits, StoredFits, BufferFits, HandOver
    <2>5. /\ buffer' = <<>> /\ ~tokenValid' /\ UNCHANGED <<connected, stored, appended, fileLength>>
          /\ Len(buffer') = 0
        BY EmptySeq DEF HandOver
    <2>6. Len(stored') + Len(sent') = Len(appended') - Len(buffer')
        BY <2>1, <2>2, <2>5, LenProperties DEF Inv, Sequenced
    <2>7. Fits'
        BY <1>1, <2>3, <2>4, <2>5, <2>6, LenProperties DEF Inv, Sequenced, Fits
    <2>8. Len(stored') + Len(sent') <= MaxLength
        BY <2>5, <2>6, LenProperties, GcsAssumption DEF Inv, Sequenced
    <2> QED
        BY <2>1, <2>5, <2>6, <2>7, <2>8
<1>3. CASE ~(tokenValid /\ connected)
    <2>1. sent' = sent
        BY <1>3 DEF HandOver
    <2>2. Fits'
        BY <1>1, <2>1, EmptySeq, LenProperties
           DEF Inv, Sequenced, Fits, StoredFits, SentFits, BufferFits, HandOver
    <2>3. /\ buffer' = <<>> /\ ~tokenValid'
          /\ connected' = connected /\ stored' = stored
        BY DEF HandOver
    <2>4. sent' \in Seq(Units) /\ Len(stored') + Len(sent') <= MaxLength
        BY <2>1, <2>3 DEF Inv, Sequenced
    <2> QED
        BY <1>3, <2>2, <2>3, <2>4
<1> QED
    BY <1>2, <1>3

LEMMA SyncWriteInv == Inv /\ SyncWrite => Inv'
<1> SUFFICES ASSUME Inv, SyncWrite PROVE Inv'
    OBVIOUS
<1>1. /\ pc = "ready" /\ InSession /\ HandOver
      /\ UNCHANGED <<fileLength, appended, failed>>
    BY DEF SyncWrite, InSession, history
<1>2. Whole /\ Settled /\ Token
    BY <1>1 DEF Inv, Session
<1>3. Sequenced' /\ Acked'
    BY <1>1, HandOverFits, EmptySeq DEF Inv, Sequenced, Acked, SyncWrite, history
<1>4. Typed' /\ Outside' /\ ReadRight'
    BY <1>1 DEF Inv, Typed, Outside, ReadRight, InSession, SyncWrite, HandOver, history
<1>5. Fits' /\ buffer' = <<>> /\ ~tokenValid' /\ connected' = connected
    BY <1>1, HandOverFits
<1>6. CASE tokenValid
    <2>1. pc' = "writing" /\ failed' = failed
        BY <1>1, <1>6 DEF SyncWrite
    <2>2. connected => Len(stored') + Len(sent') = Len(appended') - Len(buffer')
        BY <1>1, <1>6, HandOverFits
    <2>3. Whole'
        BY <1>5, <2>2 DEF Whole
    <2> QED
        BY <1>3, <1>4, <1>5, <2>1, <2>3
           DEF Inv, Session, Settled, Token, HandedOver, ReadInRange
<1>7. CASE ~tokenValid
    <2>1. pc' = "refused" /\ failed' /\ ~tokenValid'
        BY <1>1, <1>2, <1>5, <1>7 DEF SyncWrite, Token
    <2> QED
        BY <1>3, <1>4, <1>5, <2>1
           DEF Inv, Session, Whole, Settled, Token, HandedOver, ReadInRange
<1> QED
    BY <1>6, <1>7

LEMMA DestroyInv == Inv /\ Destroy => Inv'
<1> SUFFICES ASSUME Inv, Destroy PROVE Inv'
    OBVIOUS
<1>1. /\ pc = "ready" /\ pc' = "closing" /\ InSession /\ InSession'
      /\ UNCHANGED <<fileLength, appended, failed>>
    BY DEF Destroy, InSession, history
<1>2. Fits /\ Whole /\ Settled /\ Token
    BY <1>1 DEF Inv, Session
<1>3. CASE buffer # <<>>
    <2>1. HandOver
        BY <1>3 DEF Destroy
    <2>2. Sequenced' /\ Acked'
        BY <1>1, <2>1, HandOverFits, EmptySeq DEF Inv, Sequenced, Acked, Destroy, history
    <2>3. Typed' /\ Outside' /\ ReadRight'
        BY <1>1, <2>1 DEF Inv, Typed, Outside, ReadRight, Destroy, HandOver, history
    <2>4. Fits' /\ buffer' = <<>> /\ ~tokenValid' /\ connected' = connected
        BY <1>1, <2>1, HandOverFits
    <2>5. connected /\ tokenValid => Len(stored') + Len(sent') = Len(appended') - Len(buffer')
        BY <1>1, <2>1, HandOverFits
    <2>6. Whole'
        BY <1>1, <1>2, <2>4, <2>5 DEF Whole, Token
    <2> QED
        BY <1>1, <2>2, <2>3, <2>4, <2>6
           DEF Inv, Session, Settled, Token, HandedOver, ReadInRange
<1>4. CASE buffer = <<>>
    <2>1. UNCHANGED <<service, buffer, tokenValid>>
        BY <1>4 DEF Destroy
    <2>2. Sequenced' /\ Acked' /\ Typed' /\ Outside' /\ ReadRight'
        BY <1>1, <2>1
           DEF Inv, Sequenced, Acked, Typed, Outside, ReadRight, Destroy, service, history
    <2>3. Fits' /\ Whole'
        BY <1>1, <1>2, <2>1
           DEF Fits, StoredFits, SentFits, BufferFits, Whole, service, Token
    <2> QED
        BY <1>1, <1>4, <2>1, <2>2, <2>3
           DEF Inv, Session, Settled, Token, HandedOver, ReadInRange
<1> QED
    BY <1>3, <1>4

LEMMA WriteSucceedsInv == Inv /\ WriteSucceeds => Inv'
<1> SUFFICES ASSUME Inv, WriteSucceeds PROVE Inv'
    OBVIOUS
<1>1. /\ pc = "writing" /\ pc' = "flushing" /\ tokenValid' /\ connected /\ InSession
      /\ UNCHANGED <<stored, sent, connected, fileLength, buffer, appended, failed, acked>>
    BY DEF WriteSucceeds, InSession, service, history
<1>2. Sequenced' /\ Acked' /\ ReadRight' /\ Outside'
    BY <1>1
       DEF Inv, Sequenced, Acked, ReadRight, Outside, InSession, WriteSucceeds, service, history
<1>3. Typed'
    BY DEF Inv, Typed, WriteSucceeds, service, history
<1>4. Fits' /\ Whole' /\ HandedOver'
    BY <1>1 DEF Inv, Session, Fits, StoredFits, SentFits, BufferFits, Whole, HandedOver
<1> QED
    BY <1>1, <1>2, <1>3, <1>4 DEF Inv, Session, Settled, Token, ReadInRange

LEMMA SyncFailsInv ==
    ASSUME Inv, pc \in {"writing", "refused", "flushing"}, SyncFails
    PROVE  Inv'
<1>1. /\ pc' = "ready" /\ failed' /\ InSession /\ InSession'
      /\ UNCHANGED <<stored, sent, connected, fileLength, buffer, tokenValid, appended, acked>>
    BY DEF SyncFails, InSession, service, client
<1>2. Sequenced' /\ Acked' /\ ReadRight' /\ Outside'
    BY <1>1 DEF Inv, Sequenced, Acked, ReadRight, Outside, SyncFails, service, client
<1>3. Typed'
    BY DEF Inv, Typed, SyncFails, service, client
<1>4. Fits' /\ Whole'
    BY <1>1 DEF Inv, Session, Fits, StoredFits, SentFits, BufferFits, Whole, Token
<1> QED
    BY <1>1, <1>2, <1>3, <1>4 DEF Inv, Session, Settled, Token, HandedOver, ReadInRange

(* A Sync that returns OK when all that was handed over is persisted.      *)
LEMMA SyncReturnsOkInv ==
    ASSUME Inv, InSession, SyncReturnsOk, UNCHANGED <<service, client, request, result>>,
           buffer = <<>>, pc = "ready" \/ (pc = "flushing" /\ connected /\ sent = <<>>)
    PROVE  Inv'
<1>1. /\ pc' = "ready" /\ InSession'
      /\ UNCHANGED <<stored, sent, connected, fileLength, buffer, tokenValid, appended, failed>>
    BY DEF SyncReturnsOk, InSession, service, client
<1>2. Fits /\ Whole /\ Settled /\ Token /\ HandedOver
    BY DEF Inv, Session
<1>3. Len(buffer) = 0 /\ Len(<<>>) = 0
    BY EmptySeq
<1>4. ~failed => Len(stored) = Len(appended) - Len(buffer)
    <2>1. CASE pc = "ready"
        BY <1>2, <2>1 DEF Settled
    <2>2. CASE pc = "flushing" /\ connected /\ sent = <<>>
        BY <1>2, <1>3, <2>2, LenProperties DEF Inv, Sequenced, Whole
    <2> QED
        BY <2>1, <2>2
<1>5. Acked'
    <2>1. CASE failed
        BY <1>1, <2>1 DEF Inv, Acked, SyncReturnsOk
    <2>2. CASE ~failed
        <3>1. acked' = appended /\ stored' = stored /\ Len(stored) = Len(appended)
            BY <1>1, <1>3, <1>4, <2>2, LenProperties DEF Inv, Sequenced, SyncReturnsOk
        <3> QED
            BY <1>2, <3>1 DEF Acked, Fits, StoredFits
    <2> QED
        BY <2>1, <2>2
<1>6. Sequenced'
    <2>1. claimed' = appended /\ acked' \in {acked, appended}
        BY DEF SyncReturnsOk
    <2> QED
        BY <1>1, <2>1 DEF Inv, Sequenced
<1>7. Typed' /\ Outside' /\ ReadRight'
    BY <1>1 DEF Inv, Typed, Outside, ReadRight, service, client
<1>8. Fits' /\ Whole' /\ Settled' /\ Token'
    BY <1>1, <1>2, <1>4 DEF Fits, StoredFits, SentFits, BufferFits, Whole, Settled, Token
<1> QED
    BY <1>1, <1>5, <1>6, <1>7, <1>8 DEF Inv, Session, HandedOver, ReadInRange

-----------------------------------------------------------------------------
(* PRead.                                                                  *)

LEMMA Window ==
    ASSUME NEW s \in Seq(Units), NEW at \in Nat, NEW k \in Nat, at + k <= Len(s)
    PROVE  /\ SubSeq(s, at + 1, at + k) \in Seq(Units)
           /\ Len(SubSeq(s, at + 1, at + k)) = k
           /\ \A i \in 1 .. k : SubSeq(s, at + 1, at + k)[i] = s[at + i]
<1> DEFINE m == at + 1
           n == at + k
<1>1. m \in Int /\ n \in Int /\ Len(s) \in Nat
    BY LenProperties
<1>2. \A i \in m .. n : s[i] \in Units
    BY <1>1, ElementOfSeq
<1>3. n - m + 1 = k /\ (m <= n <=> k > 0) /\ \A i \in 1 .. k : m + i - 1 = at + i
    OBVIOUS
<1>4. /\ SubSeq(s, m, n) \in Seq(Units)
      /\ Len(SubSeq(s, m, n)) = IF m <= n THEN n - m + 1 ELSE 0
      /\ \A i \in 1 .. n - m + 1 : SubSeq(s, m, n)[i] = s[m + i - 1]
    <2> HIDE DEF m, n
    <2> QED
        BY <1>1, <1>2, SubSeqProperties
<1> HIDE DEF m, n
<1>5. Len(SubSeq(s, m, n)) = k
    BY <1>3, <1>4
<1>6. \A i \in 1 .. k : SubSeq(s, m, n)[i] = s[at + i]
    BY <1>3, <1>4
<1> QED
    BY <1>4, <1>5, <1>6 DEF m, n

LEMMA FromBufferRight ==
    ASSUME Inv, InSession, NEW from \in Nat, NEW to \in Nat, from >= BufferStart, to <= fileLength
    PROVE  /\ FromBuffer(from, to) \in Seq(Units)
           /\ Len(FromBuffer(from, to)) = IF from < to THEN to - from ELSE 0
           /\ \A i \in 1 .. to - from : FromBuffer(from, to)[i] = appended[from + i]
<1> DEFINE m == from - BufferStart + 1
           n == to - BufferStart
<1>1. Fits /\ Len(buffer) \in Nat /\ Len(appended) \in Nat
    BY LenProperties DEF Inv, Session, Sequenced
<1>2. BufferStart \in Int /\ m \in Int /\ n \in Int /\ m >= 1 /\ n <= Len(buffer)
    BY <1>1 DEF BufferStart, Fits
<1>3. \A i \in m .. n : buffer[i] \in Units
    BY <1>2, ElementOfSeq DEF Inv, Sequenced
<1>4. /\ SubSeq(buffer, m, n) \in Seq(Units)
      /\ Len(SubSeq(buffer, m, n)) = IF m <= n THEN n - m + 1 ELSE 0
      /\ \A i \in 1 .. n - m + 1 : SubSeq(buffer, m, n)[i] = buffer[m + i - 1]
    <2> HIDE DEF m, n
    <2> QED
        BY <1>2, <1>3, SubSeqProperties
<1>5. n - m + 1 = to - from /\ (m <= n <=> from < to)
    BY <1>2
<1>6. ASSUME NEW i \in 1 .. to - from
      PROVE  buffer[m + i - 1] = appended[from + i]
    <2>1. m + i - 1 \in 1 .. Len(buffer)
        BY <1>1, <1>2
    <2>2. Len(appended) - Len(buffer) + (m + i - 1) = from + i
        BY <1>1, <1>2 DEF BufferStart, Fits
    <2> QED
        BY <1>1, <2>1, <2>2 DEF Fits, BufferFits
<1>7. FromBuffer(from, to) = SubSeq(buffer, m, n)
    BY DEF FromBuffer
<1> HIDE DEF m, n
<1> QED
    BY <1>4, <1>5, <1>6, <1>7

LEMMA PReadInv ==
    ASSUME Inv, NEW at \in 0 .. MaxLength - 1, NEW size \in 1 .. MaxLength, PRead(at, size)
    PROVE  Inv'
<1>1. /\ pc = "ready" /\ pc' \in {"copied", "reading"} /\ InSession /\ InSession'
      /\ at + size <= fileLength /\ at \in Nat /\ size \in Nat
      /\ request' = [at |-> at, size |-> size, attempts |-> 0]
    BY GcsAssumption DEF PRead, InSession
<1>2. Fits /\ Whole /\ Settled /\ Token
    BY <1>1 DEF Inv, Session
<1>4. result' \in Seq(Units) /\ Len(result') <= MaxLength /\ ReadRight'
    <2>1. CASE at >= BufferStart /\ result' = FromBuffer(at, at + size) /\ pc' = "copied"
        <3>1. /\ result' \in Seq(Units) /\ Len(result') = size
              /\ \A i \in 1 .. size : result'[i] = appended[at + i]
            <4>1. PICK from, to : from = at /\ to = at + size
                OBVIOUS
            <4>2. from \in Nat /\ to \in Nat /\ to <= fileLength /\ from >= BufferStart
                  /\ to - from = size /\ result' = FromBuffer(from, to)
                BY <1>1, <2>1, <4>1
            <4>3. /\ FromBuffer(from, to) \in Seq(Units)
                  /\ Len(FromBuffer(from, to)) = IF from < to THEN to - from ELSE 0
                  /\ \A i \in 1 .. to - from : FromBuffer(from, to)[i] = appended[from + i]
                BY ONLY Inv, <1>1, <4>2, FromBufferRight
            <4>4. from < to
                BY ONLY <1>1, <4>1, <4>2, size \in 1 .. MaxLength, GcsAssumption
            <4> QED
                BY ONLY <4>1, <4>2, <4>3, <4>4
        <3>2. appended' = appended
            BY DEF PRead, history
        <3> QED
            BY <1>1, <3>1, <3>2, GcsAssumption DEF ReadRight
    <2>2. CASE pc' = "reading" /\ result' = result
        BY <2>2 DEF Inv, Sequenced, ReadRight
    <2> QED
        BY <2>1, <2>2 DEF PRead
<1>5. pc' = "reading" => at < BufferStart
    BY DEF PRead
<1>6. Sequenced' /\ Acked' /\ Outside'
    BY <1>1, <1>4 DEF Inv, Sequenced, Acked, Outside, PRead, service, client, history
<1>7. Typed'
    <2>1. request' \in [at : 0 .. MaxLength, size : 0 .. MaxLength, attempts : 0 .. MaxAttempts]
        BY <1>1, GcsAssumption
    <2> QED
        BY <1>1, <2>1 DEF Inv, Typed, PRead, service, client, history
<1>8. Fits' /\ Whole' /\ Settled' /\ Token'
    BY <1>1, <1>2
       DEF Fits, StoredFits, SentFits, BufferFits, Whole, Settled, Token,
           PRead, service, client, history
<1>9. ReadInRange'
    BY <1>1, <1>5, GcsAssumption DEF ReadInRange, BufferStart, PRead, client
<1> QED
    BY <1>1, <1>4, <1>6, <1>7, <1>8, <1>9 DEF Inv, Session, HandedOver

(* A read that ends, with or without its data.                             *)
LEMMA EndReadInv ==
    ASSUME Inv, pc \in {"reading", "copied"}, EndRead,
           descriptor' \in {NoDescriptor} \cup 0 .. MaxLength,
           UNCHANGED <<service, initialOffset, fileLength, buffer, tokenValid, history>>
    PROVE  Inv'
<1>1. pc' = "ready" /\ result' = <<>> /\ InSession /\ InSession' /\ request' = NoRequest
    BY DEF EndRead, InSession
<1>2. Fits /\ Whole /\ Settled /\ Token
    BY <1>1 DEF Inv, Session
<1>3. Sequenced'
    BY <1>1, EmptySeq, GcsAssumption DEF Inv, Sequenced, service, history
<1>4. Typed'
    <2>1. request' \in [at : 0 .. MaxLength, size : 0 .. MaxLength, attempts : 0 .. MaxAttempts]
        BY <1>1, GcsAssumption DEF NoRequest
    <2> QED
        BY <1>1, <2>1 DEF Inv, Typed, service, history
<1>5. Acked' /\ Outside' /\ ReadRight'
    BY <1>1 DEF Inv, Acked, Outside, ReadRight, service, history
<1>6. Fits' /\ Whole' /\ Settled' /\ Token'
    BY <1>1, <1>2
       DEF Fits, StoredFits, SentFits, BufferFits, Whole, Settled, Token, service, history
<1> QED
    BY <1>1, <1>3, <1>4, <1>5, <1>6 DEF Inv, Session, HandedOver, ReadInRange

(* The two pieces of a read meet at the start of the buffer.               *)
LEMMA PiecesMeet ==
    ASSUME Inv, pc = "reading",
           request.at + GcsReadSize(request) <= Len(stored)
    PROVE  LET piece == SubSeq(stored, request.at + 1, request.at + GcsReadSize(request))
                            \o FromBuffer(BufferStart, request.at + request.size)
           IN  /\ piece \in Seq(Units) /\ Len(piece) = request.size
               /\ \A i \in 1 .. request.size : piece[i] = appended[request.at + i]
<1> DEFINE at == request.at
           size == request.size
           k == GcsReadSize(request)
           front == SubSeq(stored, at + 1, at + k)
           back == FromBuffer(BufferStart, at + size)
<1>1. InSession /\ Fits /\ ReadInRange
    BY DEF Inv, Session, InSession
<1>2. /\ at \in Nat /\ size \in Nat /\ BufferStart \in Nat /\ at < BufferStart
      /\ at + size <= fileLength /\ Len(stored) \in Nat
    BY <1>1, LenProperties, GcsAssumption
       DEF Inv, Typed, Sequenced, Fits, ReadInRange, BufferStart
<1>3. k \in Nat /\ k <= size /\ (k = size \/ at + k = BufferStart) /\ at + k <= BufferStart
    BY <1>2 DEF GcsReadSize, Smaller
<1> HIDE DEF k, at, size
<1>4. at + k <= Len(stored)
    BY DEF at, k
<1>5. /\ front \in Seq(Units) /\ Len(front) = k
      /\ \A i \in 1 .. k : front[i] = stored[at + i]
    BY <1>2, <1>3, <1>4, Window DEF Inv, Sequenced
<1>6. \A i \in 1 .. k : front[i] = appended[at + i]
    BY <1>1, <1>2, <1>3, <1>4, <1>5 DEF Fits, StoredFits
<1>7. /\ back \in Seq(Units)
      /\ Len(back) = IF BufferStart < at + size THEN at + size - BufferStart ELSE 0
      /\ \A i \in 1 .. at + size - BufferStart : back[i] = appended[BufferStart + i]
    BY <1>1, <1>2, FromBufferRight
<1> HIDE DEF front, back
<1>8. Len(back) = size - k
    BY <1>2, <1>3, <1>7
<1>9. /\ front \o back \in Seq(Units) /\ Len(front \o back) = size
      /\ \A i \in 1 .. size : (front \o back)[i] = IF i <= k THEN front[i] ELSE back[i - k]
    <2>1. k + Len(back) = size
        BY <1>2, <1>3, <1>8
    <2>2. /\ front \o back \in Seq(Units) /\ Len(front \o back) = Len(front) + Len(back)
          /\ \A i \in 1 .. Len(front) + Len(back) :
                 (front \o back)[i] = IF i <= Len(front) THEN front[i] ELSE back[i - Len(front)]
        <3>1. front \in Seq(Units) /\ back \in Seq(Units)
            BY <1>5, <1>7
        <3> QED
            BY ONLY <3>1, ConcatProperties
    <2> QED
        BY <1>5, <2>1, <2>2
<1>10. ASSUME NEW i \in 1 .. size
       PROVE  (front \o back)[i] = appended[at + i]
    <2>1. CASE i <= k
        BY <1>3, <1>6, <1>9, <2>1
    <2>2. CASE i > k
        <3>1. at + k = BufferStart /\ i - k \in 1 .. at + size - BufferStart
            BY <1>2, <1>3, <2>2
        <3>2. BufferStart + (i - k) = at + i
            BY <1>2, <1>3, <3>1
        <3>3. back[i - k] = appended[at + i]
            BY <1>7, <3>1, <3>2
        <3>4. (front \o back)[i] = back[i - k]
            BY <1>2, <1>3, <1>9, <2>2
        <3> QED
            BY <3>3, <3>4
    <2>3. i <= k \/ i > k
        BY <1>2, <1>3
    <2> QED
        BY <2>1, <2>2, <2>3
<1> QED
    BY <1>9, <1>10 DEF front, back, at, size, k

LEMMA AttemptInv == Inv /\ Attempt => Inv'
<1> SUFFICES ASSUME Inv, Attempt PROVE Inv'
    OBVIOUS
<1>1. /\ pc = "reading" /\ InSession
      /\ UNCHANGED <<service, initialOffset, fileLength, buffer, tokenValid, history>>
    BY DEF Attempt, InSession
<1>2. descriptor' \in {NoDescriptor} \cup 0 .. MaxLength
    <2>1. Len(stored) \in Nat /\ Len(stored) <= MaxLength
        BY LenProperties, GcsAssumption DEF Inv, Sequenced
    <2> QED
        BY <2>1, GcsAssumption DEF Inv, Typed, Attempt, Descriptors
<1>3. Fits /\ Whole /\ Settled /\ Token /\ ReadInRange
    BY <1>1 DEF Inv, Session
<1>4. CASE EndRead
    BY <1>1, <1>2, <1>4, EndReadInv
<1>5. CASE /\ request.attempts + 1 < MaxAttempts
           /\ request' = [request EXCEPT !.attempts = @ + 1]
           /\ UNCHANGED <<pc, result>>
    <2>1. /\ request'.at = request.at /\ request'.size = request.size
          /\ request'.attempts = request.attempts + 1
          /\ request' \in [at : 0 .. MaxLength, size : 0 .. MaxLength, attempts : 0 .. MaxAttempts]
        BY <1>5, GcsAssumption DEF Inv, Typed
    <2>2. Sequenced' /\ Acked' /\ Outside' /\ ReadRight'
        BY <1>1, <1>5, <2>1
           DEF Inv, Sequenced, Acked, Outside, ReadRight, InSession, service, history
    <2>3. Typed'
        BY <1>1, <1>2, <1>5, <2>1 DEF Inv, Typed, service, history
    <2>4. Fits' /\ Whole' /\ Settled' /\ Token'
        BY <1>1, <1>3, <1>5
           DEF Fits, StoredFits, SentFits, BufferFits, Whole, Settled, Token, service, history
    <2> QED
        BY <1>1, <1>3, <1>5, <2>1, <2>2, <2>3, <2>4
           DEF Inv, Session, HandedOver, ReadInRange, BufferStart
<1>6. CASE /\ request.at + GcsReadSize(request) <= Len(stored)
           /\ result' = SubSeq(stored, request.at + 1, request.at + GcsReadSize(request))
                            \o FromBuffer(BufferStart, request.at + request.size)
           /\ pc' = "copied"
           /\ UNCHANGED request
    <2>1. /\ result' \in Seq(Units) /\ Len(result') = request.size
          /\ \A i \in 1 .. request.size : result'[i] = appended[request.at + i]
        BY <1>1, <1>6, PiecesMeet
    <2>2. request.size <= MaxLength
        BY GcsAssumption DEF Inv, Typed
    <2>3. Sequenced' /\ Acked' /\ Outside' /\ ReadRight'
        BY <1>1, <1>6, <2>1, <2>2
           DEF Inv, Sequenced, Acked, Outside, ReadRight, InSession, service, history
    <2>4. Typed'
        BY <1>1, <1>2, <1>6 DEF Inv, Typed, service, history
    <2>5. Fits' /\ Whole' /\ Settled' /\ Token'
        BY <1>1, <1>3, <1>6
           DEF Fits, StoredFits, SentFits, BufferFits, Whole, Settled, Token, service, history
    <2> QED
        BY <1>1, <1>3, <1>6, <2>3, <2>4, <2>5
           DEF Inv, Session, HandedOver, ReadInRange
<1> QED
    BY <1>4, <1>5, <1>6 DEF Attempt

LEMMA ReadReturnsDataInv == Inv /\ ReadReturnsData => Inv'
<1> SUFFICES ASSUME Inv, ReadReturnsData PROVE Inv'
    OBVIOUS
<1>1. descriptor' \in {NoDescriptor} \cup 0 .. MaxLength
    BY DEF Inv, Typed, ReadReturnsData, client
<1> QED
    BY <1>1, EndReadInv DEF ReadReturnsData, client

-----------------------------------------------------------------------------
LEMMA InvInductive == Spec => []Inv
<1>1. Init => Inv
    BY InitInv
<1>2. Inv /\ [Next]_vars => Inv'
    <2> SUFFICES ASSUME Inv, [Next]_vars PROVE Inv'
        OBVIOUS
    <2>1. CASE Persist \/ Break
        BY <2>1, PersistInv, BreakInv
    <2>2. CASE GetMetadata \/ OpenUpload \/ OpenDescriptor \/ Construct
        BY <2>2, GetMetadataInv, OpenUploadInv, OpenDescriptorInv, ConstructInv
    <2>3. CASE CreateFails \/ Closed \/ Crash
        BY <2>3, ForgetInv DEF CreateFails, Closed, Crash
    <2>4. CASE Appending
        BY <2>4, AppendInv DEF Appending
    <2>5. CASE SyncNothing
        BY <2>5, SyncReturnsOkInv DEF SyncNothing, InSession
    <2>6. CASE SyncWrite \/ WriteSucceeds \/ Destroy
        BY <2>6, SyncWriteInv, WriteSucceedsInv, DestroyInv
    <2>7. CASE WriteFails \/ FlushFails
        BY <2>7, SyncFailsInv DEF WriteFails, FlushFails
    <2>8. CASE FlushSucceeds
        <3>1. InSession /\ buffer = <<>>
            BY <2>8 DEF Inv, Session, InSession, HandedOver, FlushSucceeds
        <3> QED
            BY <2>8, <3>1, SyncReturnsOkInv DEF FlushSucceeds
    <2>9. CASE Reading
        BY <2>9, PReadInv DEF Reading
    <2>10. CASE ReadStep
        BY <2>10, AttemptInv, ReadReturnsDataInv DEF ReadStep
    <2>11. CASE UNCHANGED vars
        BY <2>11
           DEF vars, service, client, history, Inv, Sequenced, Typed, Outside, Session,
               InSession, Fits, StoredFits, SentFits, BufferFits, Whole, Settled, Token,
               HandedOver, ReadInRange, BufferStart, Acked, ReadRight
    <2> QED
        BY <2>1, <2>2, <2>3, <2>4, <2>5, <2>6, <2>7, <2>8, <2>9, <2>10, <2>11 DEF Next
<1> QED
    BY <1>1, <1>2, PTL DEF Spec

LEMMA BoundedIsContents ==
    ASSUME NEW s \in Seq(Units), Len(s) <= MaxLength
    PROVE  s \in Contents
<1>1. s \in [1 .. Len(s) -> Units] /\ Len(s) \in 0 .. MaxLength
    BY LenProperties, GcsAssumption
<1> QED
    BY <1>1 DEF Contents, BoundedSeq, SeqOf

(* The types of the client, the object and the stream (GcsRapidStorage).   *)
THEOREM GcsTypeCorrect == Spec => []TypeOK
<1>1. Inv => TypeOK
    <2> SUFFICES ASSUME Inv PROVE TypeOK
        OBVIOUS
    <2>1. Len(stored) <= MaxLength /\ Len(sent) <= MaxLength
        BY LenProperties, GcsAssumption DEF Inv, Sequenced
    <2>2. InSession \/ buffer = <<>>
        BY DEF Inv, Outside
    <2>3. Len(buffer) <= MaxLength
        <3>1. CASE InSession
            BY <3>1, LenProperties, GcsAssumption DEF Inv, Sequenced, Session, Fits
        <3>2. CASE buffer = <<>>
            BY <3>2, EmptySeq, GcsAssumption
        <3> QED
            BY <2>2, <3>1, <3>2
    <2>4. {stored, sent, buffer, result, appended, acked, claimed} \subseteq Contents
        BY <2>1, <2>3, BoundedIsContents DEF Inv, Sequenced
    <2> QED
        BY <2>4 DEF Inv, Typed, TypeOK
<1> QED
    BY <1>1, InvInductive, PTL

LEMMA PrefixByElements ==
    ASSUME NEW s \in Seq(Units), NEW t \in Seq(Units), Len(s) <= Len(t),
           \A i \in 1 .. Len(s) : s[i] = t[i]
    PROVE  IsPrefix(s, t)
<1>1. Len(s) \in Nat /\ Len(t) \in Nat
    BY LenProperties
<1>2. /\ SubSeq(t, 1, Len(s)) \in Seq(Units) /\ Len(SubSeq(t, 1, Len(s))) = Len(s)
      /\ \A i \in 1 .. Len(s) : SubSeq(t, 1, Len(s))[i] = t[i]
    <2>1. 0 + Len(s) <= Len(t) /\ 0 + 1 = 1 /\ 0 + Len(s) = Len(s)
          /\ \A i \in 1 .. Len(s) : 0 + i = i
        BY <1>1
    <2> QED
        BY <1>1, <2>1, Window
<1>3. SubSeq(t, 1, Len(s)) = s
    BY <1>2, SeqEqual
<1>4. SubSeq(s, 1, Len(s)) = s
    BY SubSeqFull
<1> QED
    BY <1>3, <1>4 DEF IsPrefix

(* The object has no hole, whatever a Sync that failed has dropped: what is *)
(* persisted and on its way is a prefix of what was appended (Sync).       *)
THEOREM NoHoles == Spec => []StoredInOrder
<1>1. Inv => StoredInOrder
    <2> SUFFICES ASSUME Inv, InSession PROVE IsPrefix(stored \o sent, appended)
        BY DEF StoredInOrder
    <2>1. Fits /\ Len(stored) \in Nat /\ Len(sent) \in Nat /\ Len(buffer) \in Nat
          /\ Len(appended) \in Nat
        BY LenProperties DEF Inv, Session, Sequenced
    <2>2. /\ stored \o sent \in Seq(Units) /\ Len(stored \o sent) = Len(stored) + Len(sent)
          /\ \A i \in 1 .. Len(stored) + Len(sent) :
                 (stored \o sent)[i] = IF i <= Len(stored) THEN stored[i] ELSE sent[i - Len(stored)]
        BY ConcatProperties DEF Inv, Sequenced
    <2>3. ASSUME NEW i \in 1 .. Len(stored) + Len(sent)
          PROVE  (stored \o sent)[i] = appended[i]
        <3>0. i \in Nat /\ Len(stored) \in Nat
            BY <2>1, <2>3
        <3>1. CASE i <= Len(stored)
            BY <2>1, <2>2, <3>1 DEF Fits, StoredFits
        <3>2. CASE i > Len(stored)
            <4>1. i - Len(stored) \in 1 .. Len(sent) /\ Len(stored) + (i - Len(stored)) = i
                BY <2>1, <3>2
            <4>2. PICK j : j = i - Len(stored)
                OBVIOUS
            <4>3. (stored \o sent)[i] = sent[j]
                BY <2>2, <3>0, <3>2, <4>2
            <4>4. sent[j] = appended[Len(stored) + j] /\ Len(stored) + j = i
                BY <2>1, <4>1, <4>2 DEF Fits, SentFits
            <4> QED
                BY ONLY <4>3, <4>4
        <3> QED
            BY ONLY <3>0, <3>1, <3>2
    <2>4. Len(stored \o sent) <= Len(appended)
        BY <2>1, <2>2 DEF Fits
    <2> QED
        BY <2>2, <2>3, <2>4, PrefixByElements DEF Inv, Sequenced
<1> QED
    BY <1>1, InvInductive, PTL

(* Until a Sync fails or the stream breaks, the offset of an append is the *)
(* one its data will have in the object (Create, Append).                  *)
THEOREM OffsetsCorrect == Spec => []OffsetsAreReal
<1>1. Inv => OffsetsAreReal
    <2> SUFFICES ASSUME Inv, InSession, connected, ~failed
                 PROVE  BufferStart = Len(stored) + Len(sent)
        BY DEF OffsetsAreReal
    <2> QED
        BY DEF Inv, Session, Fits, Whole, BufferStart
<1> QED
    BY <1>1, InvInductive, PTL

(* What Syncs acknowledged until one failed is in the object for good      *)
(* (Sync).                                                                 *)
THEOREM AckedSurvives == Spec => []AckedIsStored
<1>1. Inv => AckedIsStored
    BY PrefixByElements DEF Inv, Sequenced, Acked, AckedIsStored
<1> QED
    BY <1>1, InvInductive, PTL

(* A read's data are those appended at its offsets, from wherever its two  *)
(* pieces came (PRead).                                                    *)
THEOREM ReadsCorrect == Spec => []ReadsReturnAppended
<1>1. Inv => ReadsReturnAppended
    <2> SUFFICES ASSUME Inv, pc = "copied"
                 PROVE  result = SubSeq(appended, request.at + 1, request.at + request.size)
        BY DEF ReadsReturnAppended
    <2> DEFINE piece == SubSeq(appended, request.at + 1, request.at + request.size)
    <2>1. request.at \in Nat /\ request.size \in Nat
        BY GcsAssumption DEF Inv, Typed
    <2>2. request.at + request.size <= Len(appended)
        BY DEF Inv, Session, InSession, ReadInRange, Fits
    <2>3. /\ piece \in Seq(Units) /\ Len(piece) = request.size
          /\ \A i \in 1 .. request.size : piece[i] = appended[request.at + i]
        <3>1. appended \in Seq(Units)
            BY DEF Inv, Sequenced
        <3> QED
            BY ONLY <2>1, <2>2, <3>1, Window
    <2> HIDE DEF piece
    <2>4. /\ result \in Seq(Units) /\ Len(result) = request.size
          /\ \A i \in 1 .. request.size : result[i] = appended[request.at + i]
        BY DEF Inv, Sequenced, ReadRight
    <2>5. result = piece
        BY <2>3, <2>4, SeqEqual
    <2> QED
        BY <2>5 DEF piece
<1> QED
    BY <1>1, InvInductive, PTL

-----------------------------------------------------------------------------
(* The storage is an AppendOnlyObject.                                     *)

(* What the abstract session has to hand over is what is buffered.         *)
LEMMA BufferedIsBuffer ==
    ASSUME Inv, InSession
    PROVE  Abstract!Buffered = buffer
<1>1. Fits /\ Len(buffer) \in Nat /\ Len(appended) \in Nat
    BY LenProperties DEF Inv, Session, Sequenced
<1> DEFINE at == Len(appended) - Len(buffer)
           piece == SubSeq(appended, at + 1, at + Len(buffer))
<1>2. at \in Nat /\ at + Len(buffer) = Len(appended)
    BY <1>1 DEF Fits
<1>3. /\ piece \in Seq(Units) /\ Len(piece) = Len(buffer)
      /\ \A i \in 1 .. Len(buffer) : piece[i] = appended[at + i]
    <2> HIDE DEF at
    <2> QED
        BY <1>1, <1>2, Window DEF Inv, Sequenced
<1>4. Abstract!Buffered = piece
    BY <1>2 DEF Abstract!Buffered
<1> HIDE DEF piece
<1>5. piece = buffer
    BY <1>1, <1>3, SeqEqual DEF Inv, Sequenced, Fits, BufferFits
<1> QED
    BY <1>4, <1>5

Arrives == InSession /\ connected /\ (tokenValid \/ pc = "writing")
Handed == Len(appended) - Len(buffer)

LEMMA ModeOfPc ==
    /\ pc \in {"ready", "reading", "copied"} => Mode = "ready"
    /\ pc \in {"writing", "refused", "flushing"} => Mode = "syncing"
    /\ pc = "closing" => Mode = "closing"
    /\ pc \in {"none", "found", "notFound", "uploading", "created"} => Mode = "none"
    BY DEF Mode

(* A step that changes nothing an AppendOnlyObject shows.                  *)
LEMMA Stutter ==
    ASSUME Mode' = Mode, Arrives' = Arrives, UNCHANGED <<stored, sent, appended, buffer, claimed>>
    PROVE  UNCHANGED Abstract!objectVars
    BY DEF Abstract!objectVars, Arrives, Handed

LEMMA PersistSimulates == Inv /\ Persist => Abstract!Persist
    BY DEF Persist, Abstract!Persist, Mode, InSession, client, history

LEMMA BreakSimulates == Inv /\ Break => Abstract!CutOff
    BY DEF Break, Abstract!CutOff, Mode, InSession, client, history

LEMMA OpenUploadSimulates == Inv /\ OpenUpload => Abstract!CutOff
    BY DEF OpenUpload, Abstract!CutOff, Mode, InSession, client, history

LEMMA ConstructSimulates == Inv /\ Construct => Abstract!OpenObject
<1> SUFFICES ASSUME Inv, Construct PROVE Abstract!OpenObject
    OBVIOUS
<1>1. /\ pc = "created" /\ pc' = "ready" /\ sent = <<>> /\ buffer = <<>> /\ tokenValid
      /\ appended' = stored /\ UNCHANGED <<stored, sent, buffer, claimed, connected, tokenValid>>
    BY DEF Inv, Outside, Construct, InSession, service
<1>2. Mode = "none" /\ Mode' = "ready"
    BY <1>1 DEF Mode
<1>3. Len(appended') - Len(buffer') = Len(stored)
    BY <1>1, EmptySeq, LenProperties DEF Inv, Sequenced
<1>4. Arrives' \in BOOLEAN
    BY DEF Arrives, InSession
<1> QED
    BY <1>1, <1>2, <1>3, <1>4 DEF Abstract!OpenObject, Arrives

LEMMA AppendSimulates ==
    ASSUME Inv, NEW u \in Units, AppendUnits(<<u>>)
    PROVE  Abstract!AppendData(<<u>>)
<1>1. /\ pc = "ready" /\ pc' = "ready" /\ buffer' = buffer \o <<u>>
      /\ appended' = appended \o <<u>> /\ Len(appended) + Len(<<u>>) <= MaxLength
      /\ UNCHANGED <<stored, sent, claimed, connected, tokenValid>>
    BY DEF AppendUnits, service
<1>2. Mode = "ready" /\ Mode' = "ready"
    BY <1>1 DEF Mode
<1>3. Len(appended') - Len(buffer') = Len(appended) - Len(buffer)
    <2>1. <<u>> \in Seq(Units) /\ Len(<<u>>) = 1
        OBVIOUS
    <2>2. Len(appended') = Len(appended) + 1 /\ Len(buffer') = Len(buffer) + 1
        BY <1>1, <2>1, ConcatProperties DEF Inv, Sequenced
    <2> QED
        BY <2>2, LenProperties DEF Inv, Sequenced
<1>4. Arrives' = Arrives
    BY <1>1 DEF Arrives, InSession
<1> QED
    BY <1>1, <1>2, <1>3, <1>4 DEF Abstract!AppendData, Arrives

LEMMA SyncWriteSimulates == Inv /\ SyncWrite => Abstract!SyncTakes
<1> SUFFICES ASSUME Inv, SyncWrite PROVE Abstract!SyncTakes
    OBVIOUS
<1>1. /\ pc = "ready" /\ buffer # <<>> /\ HandOver /\ InSession
      /\ pc' = IF tokenValid THEN "writing" ELSE "refused"
      /\ UNCHANGED <<stored, appended, claimed, connected>>
    BY DEF SyncWrite, HandOver, InSession, history
<1>2. Mode = "ready" /\ Mode' = "syncing"
    BY <1>1 DEF Mode
<1>3. Abstract!Buffered = buffer
    BY <1>1, BufferedIsBuffer
<1>4. Arrives = (connected /\ tokenValid) /\ Arrives' = Arrives
    BY <1>1 DEF Arrives, InSession, HandOver
<1>5. Len(appended') - Len(buffer') = Len(appended)
    BY <1>1, EmptySeq, LenProperties DEF Inv, Sequenced, HandOver
<1>6. sent' = IF Arrives THEN sent \o buffer ELSE sent
    BY <1>1, <1>4 DEF HandOver
<1> QED
    BY <1>1, <1>2, <1>3, <1>4, <1>5, <1>6 DEF Abstract!SyncTakes, Abstract!Take, Arrives

LEMMA DestroySimulates == Inv /\ Destroy => Abstract!CloseTakes
<1> SUFFICES ASSUME Inv, Destroy PROVE Abstract!CloseTakes
    OBVIOUS
<1>1. /\ pc = "ready" /\ pc' = "closing" /\ InSession
      /\ UNCHANGED <<stored, appended, claimed, connected>>
    BY DEF Destroy, HandOver, InSession, history, service
<1>2. Mode = "ready" /\ Mode' = "closing"
    BY <1>1 DEF Mode
<1>3. Abstract!Buffered = buffer
    BY <1>1, BufferedIsBuffer
<1>4. Arrives = (connected /\ tokenValid)
    BY <1>1 DEF Arrives, InSession
<1>5. sent' = (IF Arrives THEN sent \o buffer ELSE sent) /\ buffer' = <<>>
    <2>1. CASE buffer # <<>>
        BY <1>4, <2>1 DEF Destroy, HandOver
    <2>2. CASE buffer = <<>>
        BY <2>2, ConcatEmptySeq DEF Destroy, service, Inv, Sequenced
    <2> QED
        BY <2>1, <2>2
<1>6. Len(appended') - Len(buffer') = Len(appended)
    BY <1>1, <1>5, EmptySeq, LenProperties DEF Inv, Sequenced
<1>7. Arrives' \in {Arrives, FALSE}
    <2>1. tokenValid' = tokenValid \/ tokenValid' = FALSE
        BY DEF Destroy, HandOver
    <2>2. Arrives' = (connected /\ tokenValid')
        BY <1>1 DEF Arrives, InSession
    <2>3. CASE tokenValid' = tokenValid
        BY <1>4, <2>2, <2>3
    <2>4. CASE tokenValid' = FALSE
        <3>1. Arrives' = FALSE
            BY <2>2, <2>4
        <3> QED
            BY <3>1
    <2> QED
        BY <2>1, <2>3, <2>4
<1> QED
    BY <1>1, <1>2, <1>3, <1>5, <1>6, <1>7 DEF Abstract!CloseTakes, Abstract!Take, Arrives

LEMMA SyncFailsSimulates ==
    ASSUME Inv, pc \in {"writing", "refused", "flushing"}, SyncFails
    PROVE  Abstract!SyncFails
<1>1. pc' = "ready" /\ UNCHANGED <<stored, sent, appended, buffer, claimed, connected, tokenValid>>
    BY DEF SyncFails, service, client
<1>2. Mode = "syncing" /\ Mode' = "ready"
    BY <1>1 DEF Mode
<1>3. Arrives' \in {Arrives, FALSE}
    <2>1. Arrives' = (connected /\ tokenValid)
        BY <1>1 DEF Arrives, InSession
    <2>2. CASE tokenValid
        <3>1. Arrives = (connected /\ tokenValid)
            BY <2>2 DEF Arrives, InSession
        <3> QED
            BY <2>1, <3>1
    <2>3. CASE ~tokenValid
        <3>1. Arrives' = FALSE
            BY <2>1, <2>3
        <3> QED
            BY <3>1
    <2> QED
        BY <2>2, <2>3
<1> QED
    BY <1>1, <1>2, <1>3 DEF Abstract!SyncFails, Arrives

LEMMA SyncNothingSimulates == Inv /\ SyncNothing => Abstract!SyncEmpty
<1> SUFFICES ASSUME Inv, SyncNothing PROVE Abstract!SyncEmpty
    OBVIOUS
<1>1. /\ pc = "ready" /\ pc' = "ready" /\ buffer = <<>> /\ InSession /\ claimed' = appended
      /\ UNCHANGED <<stored, sent, appended, buffer, connected, tokenValid>>
    BY DEF SyncNothing, SyncReturnsOk, InSession, service, client
<1>2. Mode = "ready" /\ Mode' = "ready" /\ Arrives' = Arrives
    BY <1>1 DEF Mode, Arrives, InSession
<1>3. Abstract!Buffered = <<>>
    BY <1>1, BufferedIsBuffer
<1> QED
    BY <1>1, <1>2, <1>3 DEF Abstract!SyncEmpty, Arrives

LEMMA FlushSucceedsSimulates == Inv /\ FlushSucceeds => Abstract!SyncOk
<1> SUFFICES ASSUME Inv, FlushSucceeds PROVE Abstract!SyncOk
    OBVIOUS
<1>1. /\ pc = "flushing" /\ pc' = "ready" /\ connected /\ sent = <<>> /\ claimed' = appended
      /\ UNCHANGED <<stored, sent, appended, buffer, connected, tokenValid>>
    BY DEF FlushSucceeds, SyncReturnsOk, service, client
<1>2. tokenValid
    BY <1>1 DEF Inv, Session, InSession, Token
<1>3. Mode = "syncing" /\ Mode' = "ready" /\ Arrives /\ Arrives'
    BY <1>1, <1>2 DEF Mode, Arrives, InSession
<1> QED
    BY <1>1, <1>3 DEF Abstract!SyncOk, Arrives

(* A client that is gone: the end of its session, or of a Create.          *)
LEMMA ForgetSimulates ==
    ASSUME Inv, Forget, UNCHANGED service
    PROVE  Abstract!End \/ UNCHANGED Abstract!objectVars
<1>1. /\ pc' = "none" /\ appended' = <<>> /\ buffer' = <<>>
      /\ UNCHANGED <<stored, sent, connected, claimed>>
    BY DEF Forget, service
<1>2. Mode' = "none" /\ Arrives' = FALSE /\ Len(appended') - Len(buffer') = 0
    BY <1>1, EmptySeq DEF Mode, Arrives, InSession
<1>3. CASE InSession
    <2>1. Mode # "none"
        BY <1>3 DEF Mode, InSession
    <2> QED
        BY <1>1, <1>2, <2>1 DEF Abstract!End, Abstract!Leave, Arrives
<1>4. CASE ~InSession
    <2>1. Mode = "none"
        BY <1>4 DEF Mode, InSession
    <2>2. appended = <<>> /\ buffer = <<>> /\ Arrives = FALSE
        BY <1>4 DEF Inv, Outside, Arrives
    <2> QED
        BY <1>1, <1>2, <2>1, <2>2, Stutter
<1> QED
    BY <1>3, <1>4

(* Steps of Create, of a write that goes on to the flush, and of PRead.    *)
LEMMA InternalSimulates ==
    ASSUME Inv,
           GetMetadata \/ OpenDescriptor \/ WriteSucceeds \/ Reading \/ ReadStep
    PROVE  UNCHANGED Abstract!objectVars
<1>1. UNCHANGED <<stored, sent, appended, buffer, claimed, connected>>
    BY DEF GetMetadata, OpenDescriptor, WriteSucceeds, Reading, PRead, ReadStep, Attempt,
           ReadReturnsData, service, client, history
<1>2. CASE GetMetadata \/ OpenDescriptor
    <2>1. Mode = "none" /\ Mode' = "none" /\ Arrives = FALSE /\ Arrives' = FALSE
        BY <1>2 DEF GetMetadata, OpenDescriptor, Mode, Arrives, InSession
    <2> QED
        BY <1>1, <2>1, Stutter
<1>3. CASE WriteSucceeds
    <2>1. Mode = "syncing" /\ Mode' = "syncing" /\ Arrives = TRUE /\ Arrives' = TRUE
        BY <1>1, <1>3 DEF WriteSucceeds, Mode, Arrives, InSession
    <2> QED
        BY <1>1, <2>1, Stutter
<1>4. CASE Reading \/ ReadStep
    <2>1. /\ pc \in {"ready", "reading", "copied"} /\ pc' \in {"ready", "reading", "copied"}
          /\ tokenValid' = tokenValid
        BY <1>4
           DEF Reading, PRead, ReadStep, Attempt, ReadReturnsData, EndRead, client
    <2>2. Mode = "ready" /\ Mode' = "ready"
        BY <2>1, ModeOfPc DEF Mode
    <2>3. Arrives' = Arrives
        BY <1>1, <2>1 DEF Arrives, InSession
    <2> QED
        BY <1>1, <2>2, <2>3, Stutter
<1> QED
    BY <1>2, <1>3, <1>4

(* Whatever the stream, the service and a crash do, Create, Append, Sync   *)
(* and the destructor behave as an AppendOnlyObject (GcsRapidStorage as an *)
(* AppendOnlyStorage, storage.h).                                          *)
THEOREM IsAppendOnlyObject == Spec => ImplementsObject
<1>1. Init => Abstract!ObjectInit
    <2> SUFFICES ASSUME Init PROVE Abstract!ObjectInit
        OBVIOUS
    <2>1. Mode = "none" /\ ~InSession
        BY DEF Init, Mode, InSession
    <2>2. Len(appended) - Len(buffer) = 0
        BY EmptySeq DEF Init
    <2> QED
        BY <2>1, <2>2 DEF Init, Abstract!ObjectInit
<1>2. Inv /\ [Next]_vars => [Abstract!ObjectNext]_(Abstract!objectVars)
    <2> SUFFICES ASSUME Inv, [Next]_vars
                 PROVE  Abstract!ObjectNext \/ UNCHANGED Abstract!objectVars
        BY DEF Abstract!objectVars
    <2>1. CASE Persist \/ Break \/ OpenUpload
        BY <2>1, PersistSimulates, BreakSimulates, OpenUploadSimulates DEF Abstract!ObjectNext
    <2>2. CASE Construct
        BY <2>2, ConstructSimulates DEF Abstract!ObjectNext
    <2>3. CASE Appending
        BY <2>3, AppendSimulates DEF Appending, Abstract!ObjectNext
    <2>4. CASE SyncNothing \/ SyncWrite
        BY <2>4, SyncNothingSimulates, SyncWriteSimulates DEF Abstract!ObjectNext
    <2>5. CASE WriteFails \/ FlushFails
        BY <2>5, SyncFailsSimulates DEF WriteFails, FlushFails, Abstract!ObjectNext
    <2>6. CASE FlushSucceeds \/ Destroy
        BY <2>6, FlushSucceedsSimulates, DestroySimulates DEF Abstract!ObjectNext
    <2>7. CASE CreateFails \/ Closed \/ Crash
        BY <2>7, ForgetSimulates DEF CreateFails, Closed, Crash, Abstract!ObjectNext
    <2>8. CASE GetMetadata \/ OpenDescriptor \/ WriteSucceeds \/ Reading \/ ReadStep
        BY <2>8, InternalSimulates
    <2>9. CASE UNCHANGED vars
        <3>1. UNCHANGED <<pc, stored, sent, appended, buffer, claimed, connected, tokenValid>>
            BY <2>9 DEF vars, service, client, history
        <3> QED
            BY <3>1, Stutter DEF Mode, Arrives, InSession
    <2> QED
        BY <2>1, <2>2, <2>3, <2>4, <2>5, <2>6, <2>7, <2>8, <2>9 DEF Next
<1> QED
    BY <1>1, <1>2, InvInductive, PTL DEF Spec, ImplementsObject, Abstract!ObjectSpec
=============================================================================
