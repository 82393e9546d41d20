-------------------------------- MODULE Memo --------------------------------
(***************************************************************************)
(* memo.go: senders encrypt memos to public keys, and owners of secret     *)
(* keys open what a network delivers to them: any memo any number of       *)
(* times, also those of others, with parts altered, exchanged or cut off.  *)
(* HKDF and AES-GCM are symbolic: a derived key is the tuple of what it is *)
(* derived from, a sealed message opens under the key, nonce and           *)
(* additional data it was sealed with and only while no byte of it changed.*)
(***************************************************************************)
EXTENDS Ciphertext

CONSTANTS
    Owners,        \* holders of secret keys
    SecretKey,     \* SecretKey[o]: the secret key of o
    Texts,         \* messages: [id |-> ..., len |-> number of bytes]
    Ephemerals,    \* the scalars the random source delivers
    Nonces,        \* the GCM nonces it delivers
    memoKDFDomain, \* the version tag of this build
    OtherDomains,  \* version tags of senders that run other builds
    BadKeys,       \* recipient keys that callers may pass besides the owners'
    Cuts,          \* numbers of bytes lost (negative) or added to a memo
    MaxMemos,      \* bound on the memos made
    MaxDamage,     \* bound on the alterations
    MaxOpens       \* bound on the calls of DecryptMemo

ASSUME MemoAssumption ==
    /\ SecretKey \in [Owners -> Scalar] /\ Ephemerals \subseteq Scalar
    /\ \A x \in Texts : x.len \in Nat
    /\ memoKDFDomain \notin OtherDomains
    /\ Cuts \subseteq Int /\ {MaxMemos, MaxDamage, MaxOpens} \subseteq Nat

MemoEphemeralKeySize == 64
MemoNonceSize == 12
MemoTagSize == 16
MemoOverhead == MemoEphemeralKeySize + MemoNonceSize
MaxMemoSize == 1024

-----------------------------------------------------------------------------
(* Keys and sealed messages *)

\* The bytes domain || ephemeralPk || recipientPk
memoAAD(domain, eph, pk) == <<domain, eph, pk>>

deriveMemoKey(domain, shared, eph, pk) ==
    [secret |-> shared, info |-> memoAAD(domain, eph, pk)]

Seal(key, nonce, msg, aad) == [key |-> key, nonce |-> nonce, msg |-> msg, aad |-> aad]

\* gcm.Open: the message, if the tag verifies.  extra counts bytes added to
\* or missing from the sealed message; flipped says whether one was changed.
Open(key, nonce, body, aad) ==
    {m \in {body.seal.msg} :
        /\ body.seal.key = key /\ body.seal.nonce = nonce /\ body.seal.aad = aad
        /\ ~body.flipped /\ body.extra = 0}

\* An encrypted memo: ephemeral key slot, nonce, sealed message with its tag.
Encoded(domain, pk, msg, r, nonce) ==
    LET eph == ScalarMul(r, G)
        key == deriveMemoKey(domain, ScalarMul(r, pk), eph, pk)
    IN  [fmt |-> "uncompressed", eph |-> eph, nonce |-> nonce,
         body |-> [seal |-> Seal(key, nonce, msg, memoAAD(domain, eph, pk)),
                   flipped |-> FALSE, extra |-> 0]]

MemoLen(c) == MemoOverhead + c.body.seal.msg.len + MemoTagSize + c.body.extra

-----------------------------------------------------------------------------
(* The two calls *)

\* Mutant: no limit on the size.
MayEncrypt_NoLimit(pk, msg) == ValidatePublicKey(pk)

\* EncryptMemo's checks of its arguments
MayEncrypt(pk, msg) == ValidatePublicKey(pk) /\ msg.len <= MaxMemoSize

\* Mutant: the smallest memo is one byte longer.
SizeOK_NoEmpty(c) ==
    /\ MemoLen(c) > MemoOverhead + MemoTagSize
    /\ MemoLen(c) <= MemoOverhead + MemoTagSize + MaxMemoSize

\* DecryptMemo's checks of the length
SizeOK(c) ==
    /\ MemoLen(c) >= MemoOverhead + MemoTagSize
    /\ MemoLen(c) <= MemoOverhead + MemoTagSize + MaxMemoSize

\* Mutant: compressed ephemeral keys are accepted.
EphemeralOK_AnyFormat(c) == IsOnCurve(c.eph) /\ ValidatePublicKey(c.eph)

\* Mutant: the identity is accepted.
EphemeralOK_Identity(c) == c.fmt = "uncompressed" /\ IsOnCurve(c.eph)

\* requireUncompressedPoint, Unmarshal (which refuses points off the curve),
\* ValidatePublicKey
EphemeralOK(c) ==
    c.fmt = "uncompressed" /\ IsOnCurve(c.eph) /\ ValidatePublicKey(c.eph)

\* DecryptMemo(c, sk): the set of the one plaintext, or {} for an error.
DecryptMemo(c, sk) ==
    LET pk == ScalarMul(sk, G)
        key == deriveMemoKey(memoKDFDomain, ScalarMul(sk, c.eph), c.eph, pk)
    IN  IF SizeOK(c) /\ EphemeralOK(c) /\ ValidatePublicKey(pk)
        THEN Open(key, c.nonce, c.body, memoAAD(memoKDFDomain, c.eph, pk))
        ELSE {}

-----------------------------------------------------------------------------
VARIABLES
    net,     \* encrypted memos; all of them stay deliverable
    sent,    \* history: what EncryptMemo returned, for whom and from what
    failed,  \* outcome of the last call of EncryptMemo: did it fail?
    opened,  \* {} or the last call of DecryptMemo
    memos, damage, opens    \* numbers of calls and alterations

memoVars == <<net, sent, failed, opened, memos, damage, opens>>

MemoInit ==
    /\ net = {} /\ sent = {} /\ failed = FALSE /\ opened = {}
    /\ memos = 0 /\ damage = 0 /\ opens = 0

PublicKey(o) == ScalarMul(SecretKey[o], G)
RecipientKeys == {PublicKey(o) : o \in Owners} \cup BadKeys

\* EncryptMemo(msg, pk) succeeds with ephemeral secret r, zero included.
EncryptMemo(domain, pk, msg, r, nonce) ==
    LET c == Encoded(domain, pk, msg, r, nonce) IN
    /\ memos < MaxMemos /\ memos' = memos + 1
    /\ MayEncrypt(pk, msg)
    /\ net' = net \cup {c}
    /\ sent' = sent \cup {[memo |-> c, domain |-> domain, pk |-> pk, msg |-> msg, r |-> r]}
    /\ failed' = FALSE /\ opened' = {}
    /\ UNCHANGED <<damage, opens>>

\* EncryptMemo returns an error: key or size refused.
EncryptMemoRefuses(pk, msg) ==
    /\ memos < MaxMemos /\ memos' = memos + 1
    /\ ~MayEncrypt(pk, msg)
    /\ failed' = TRUE /\ opened' = {}
    /\ UNCHANGED <<net, sent, damage, opens>>

\* ... or the random source fails, at the ephemeral key or at the nonce.
EncryptMemoRngFails(pk, msg) ==
    /\ memos < MaxMemos /\ memos' = memos + 1
    /\ MayEncrypt(pk, msg)
    /\ failed' = TRUE /\ opened' = {}
    /\ UNCHANGED <<net, sent, damage, opens>>

\* The network adds a damaged copy of c.
Damage(c) ==
    /\ damage < MaxDamage /\ damage' = damage + 1
    /\ net' = net \cup {c}
    /\ opened' = {}
    /\ UNCHANGED <<sent, failed, memos, opens>>

\* Another ephemeral key or format, another nonce, the sealed message of
\* another memo, a byte changed, bytes lost or added.
AlterMemo(c) ==
    \/ \E P \in Point \cup {OffCurve}, fmt \in {"uncompressed", "compressed"} :
          Damage([fmt |-> fmt, eph |-> P, nonce |-> c.nonce, body |-> c.body])
    \/ \E x \in Nonces : Damage([c EXCEPT !.nonce = x])
    \/ \E d \in net : Damage([c EXCEPT !.body = d.body])
    \/ Damage([c EXCEPT !.body.flipped = TRUE])
    \/ \E x \in Cuts : MemoLen(c) + x >= 0 /\ Damage([c EXCEPT !.body.extra = x])

\* DecryptMemo by owner o of a memo the network delivers.
OpenMemo(o, c) ==
    /\ opens < MaxOpens /\ opens' = opens + 1
    /\ opened' = {[memo |-> c, owner |-> o, res |-> DecryptMemo(c, SecretKey[o])]}
    /\ UNCHANGED <<net, sent, failed, memos, damage>>

MemoNext ==
    \/ \E domain \in {memoKDFDomain} \cup OtherDomains, pk \in RecipientKeys, msg \in Texts,
          r \in Ephemerals, nonce \in Nonces : EncryptMemo(domain, pk, msg, r, nonce)
    \/ \E pk \in RecipientKeys, msg \in Texts : EncryptMemoRefuses(pk, msg)
    \/ \E pk \in RecipientKeys, msg \in Texts : EncryptMemoRngFails(pk, msg)
    \/ \E c \in net : AlterMemo(c)
    \/ \E o \in Owners, c \in net : OpenMemo(o, c)

MemoSpec == MemoInit /\ [][MemoNext]_memoVars

-----------------------------------------------------------------------------
(* Properties *)

MemoTypeOK ==
    /\ \A c \in net : c.eph \in Point \cup {OffCurve} /\ c.fmt \in {"uncompressed", "compressed"}
    /\ \A s \in sent : s.memo \in net /\ s.memo.body.seal.msg.len \in 0..MaxMemoSize
    /\ \A d \in opened : d.owner \in Owners /\ d.memo \in net

\* Every memo EncryptMemo returned, whatever its size from 0 to MaxMemoSize,
\* is opened to its message by the owner of the key it was encrypted to, if
\* the sender runs the same version and did not draw the ephemeral secret 0
\* (EncryptMemo returns such a memo without an error and nobody can open it).
MemoDelivered ==
    \A d \in opened, s \in sent :
        d.memo = s.memo /\ s.pk = PublicKey(d.owner) /\ s.domain = memoKDFDomain /\ s.r # 0
        => d.res = {s.msg}

\* What DecryptMemo returns is the message of a memo that EncryptMemo, of the
\* same version, returned byte for byte for this owner's key: altered,
\* spliced or misdelivered memos and those of other versions are refused.
MemoAuthentic ==
    \A d \in opened : d.res # {} =>
        \E s \in sent :
            /\ s.memo = d.memo /\ s.domain = memoKDFDomain
            /\ s.pk = PublicKey(d.owner) /\ d.res = {s.msg}

\* No memo is opened with a key that anyone could have computed: the shared
\* secret of an opened memo is not the identity, even if an ephemeral secret
\* or an owner's key is 0.
SharedSecretNotPublic ==
    \A d \in opened : d.res # {} => d.memo.body.seal.key.secret # Identity
=============================================================================
