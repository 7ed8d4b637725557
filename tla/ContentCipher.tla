---------------------------- MODULE ContentCipher ----------------------------
(***************************************************************************)
(* The GCPABE01 container of the crypto worker: a header, then one sealed  *)
(* chunk after another (internal/crypto).                                  *)
(*                                                                         *)
(* Ciphers are symbolic: a sealed chunk opens under the key, nonce and     *)
(* additional data it was sealed with, a protected key unwraps with the    *)
(* private key and label it was made for, and nothing else does.  SHA-256  *)
(* of a header is the header itself.  A run of the worker draws one data   *)
(* key and one nonce prefix: the run stands for both.  A key stands for    *)
(* both halves of an RSA key pair and for its fingerprint.                 *)
(***************************************************************************)
EXTENDS Naturals, Sequences, SequencesExt

CONSTANT ChunkSize  \* bytes of plaintext in a full chunk

ASSUME ChunkSizeAssumption == ChunkSize \in Nat \ {0}

(***************************************************************************)
(* Sealing                                                                 *)
(***************************************************************************)
ChunkCount(size) == (size + ChunkSize - 1) \div ChunkSize

Header(run, attempt, size) ==
  [noncePrefix |-> run, attempt |-> attempt, size |-> size,
   chunkCount |-> ChunkCount(size)]

ChunkNonce(prefix, index) == <<prefix, index>>

ChunkAAD(header, index, length) == <<header, index, header.chunkCount, length>>

Seal(dek, nonce, plain, aad) ==
  [dek |-> dek, nonce |-> nonce, plain |-> plain, aad |-> aad]

\* The bytes that chunk number index of a file takes; fewer when it ends.
ChunkOf(bytes, index) ==
  LET first == index * ChunkSize
      last == IF first + ChunkSize < Len(bytes) THEN first + ChunkSize ELSE Len(bytes)
  IN SubSeq(bytes, first + 1, last)

SealedChunk(dek, header, index, plain) ==
  [index |-> index, length |-> Len(plain),
   sealed |-> Seal(dek, ChunkNonce(header.noncePrefix, index), plain,
                   ChunkAAD(header, index, Len(plain)))]

Protect(dek, key, context) == [key |-> key, dek |-> dek, label |-> context]

(***************************************************************************)
(* Opening                                                                 *)
(***************************************************************************)
Unwraps(protected, privateKey, context) ==
  protected.key = privateKey /\ protected.label = context

Opens(sealed, dek, nonce, aad) ==
  sealed.dek = dek /\ sealed.nonce = nonce /\ sealed.aad = aad

\* Plaintext bytes in the first n chunks.
Processed(container, n) ==
  LET processed[i \in 0 .. Len(container.chunks)] ==
        IF i = 0 THEN 0 ELSE processed[i - 1] + container.chunks[i].length
  IN processed[n]

ChunkAccepted(container, dek, index) ==
  LET chunk == container.chunks[index + 1]
      header == container.header
  IN /\ chunk.index = index
     /\ chunk.length \in 1 .. ChunkSize
     /\ Processed(container, index + 1) <= header.size
     /\ Len(chunk.sealed.plain) = chunk.length
     /\ Opens(chunk.sealed, dek, ChunkNonce(header.noncePrefix, index),
              ChunkAAD(header, index, chunk.length))

\* An envelope is a protected key with the context hash the server keeps.
Decrypts(container, envelope, privateKey) ==
  LET count == container.header.chunkCount
  IN /\ container.header = envelope.context
     /\ Unwraps(envelope.protected, privateKey, container.header)
     /\ Len(container.chunks) = count
     /\ \A index \in 0 .. count - 1 :
          ChunkAccepted(container, envelope.protected.dek, index)
     /\ Processed(container, count) = container.header.size

Plaintext(container) ==
  FlattenSeq([i \in DOMAIN container.chunks |-> container.chunks[i].sealed.plain])

(***************************************************************************)
(* What a disk or a transfer can make of a container: the end is lost or   *)
(* comes twice, chunks change places or come from another container, with  *)
(* or without their numbers, bytes of a chunk or of the header change.     *)
(***************************************************************************)
Swapped(s, i, j) == [s EXCEPT ![i] = s[j], ![j] = s[i]]

With(container, chunks) == [container EXCEPT !.chunks = chunks]

Resized(container) ==
  {With(container, Front(container.chunks)),
   With(container, Append(container.chunks, Last(container.chunks))),
   [header |-> [container.header EXCEPT !.chunkCount = @ - 1],
    chunks |-> Front(container.chunks)]}

Rearranged(container) ==
  {With(container, Swapped(container.chunks, i, j)) : i, j \in DOMAIN container.chunks}

Renumbered(container) ==
  LET chunks == container.chunks
  IN {With(container, [Swapped(chunks, i, j) EXCEPT ![i].index = chunks[i].index,
                                                    ![j].index = chunks[j].index])
        : i, j \in DOMAIN chunks}

Shortened(container) ==
  {With(container, [container.chunks EXCEPT ![i].length = @ - 1]) : i \in DOMAIN container.chunks}

Altered(container) ==
  {With(container, [container.chunks EXCEPT ![i].sealed.plain = Reverse(@),
                                            ![i].sealed.aad = <<>>])
     : i \in DOMAIN container.chunks}

Mixed(container, other) ==
  {With(container, [container.chunks EXCEPT ![i] = other.chunks[i]])
     : i \in DOMAIN container.chunks \cap DOMAIN other.chunks}

Damaged(container, others) ==
  Resized(container) \cup Rearranged(container) \cup Renumbered(container)
  \cup Shortened(container) \cup Altered(container)
  \cup UNION {Mixed(container, other) : other \in others}
=============================================================================
