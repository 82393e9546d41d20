---------------------------- MODULE Memo_proofs ----------------------------
(***************************************************************************)
(* Delivery and authenticity of memos, for every prime group order, every  *)
(* set of owners, messages and versions, and any number of memos,          *)
(* alterations and calls of DecryptMemo.                                   *)
(***************************************************************************)
EXTENDS Memo, BN254_proofs

\* A memo is four fields and its body three: whatever the network does to a
\* memo, it is the caller's byte string cut at the same places.
Parts(fmt, eph, nonce, seal, flipped, extra) ==
    [fmt |-> fmt, eph |-> eph, nonce |-> nonce,
     body |-> [seal |-> seal, flipped |-> flipped, extra |-> extra]]

Shaped(c) ==
    /\ c = Parts(c.fmt, c.eph, c.nonce, c.body.seal, c.body.flipped, c.body.extra)
    /\ c.body.flipped \in BOOLEAN

\* The history says how each memo was made.
SentInv ==
    \A s \in sent :
        /\ s.memo = Encoded(s.domain, s.pk, s.msg, s.r, s.memo.nonce)
        /\ s.memo \in net
        /\ MayEncrypt(s.pk, s.msg) /\ s.msg.len \in Nat /\ s.r \in Scalar

\* Nobody but EncryptMemo seals messages.
NetInv ==
    \A c \in net :
        /\ Shaped(c)
        /\ c.fmt \in {"uncompressed", "compressed"} /\ c.eph \in Point \cup {OffCurve}
        /\ \E s \in sent : c.body.seal = s.memo.body.seal

OpenedInv ==
    \A d \in opened :
        d.memo \in net /\ d.owner \in Owners /\ d.res = DecryptMemo(d.memo, SecretKey[d.owner])

MemoInv == SentInv /\ NetInv /\ OpenedInv

-----------------------------------------------------------------------------
(* The invariant *)

LEMMA MemoInitInv == MemoInit => MemoInv
BY DEF MemoInit, MemoInv, SentInv, NetInv, OpenedInv

LEMMA GPoint == G \in Point /\ Scalar \subseteq Int /\ Point \subseteq Int
BY QAssumption DEF G, Point, Scalar

\* The fields of a memo put together from parts.
LEMMA PartsFields ==
    ASSUME NEW f, NEW e, NEW n, NEW sl, NEW b \in BOOLEAN, NEW x
    PROVE  LET c == Parts(f, e, n, sl, b, x)
           IN  /\ Shaped(c) /\ c.fmt = f /\ c.eph = e /\ c.nonce = n
               /\ c.body.seal = sl /\ c.body.flipped = b /\ c.body.extra = x
BY DEF Parts, Shaped

\* What EncryptMemo returns has the shape of a memo and an ephemeral key on
\* the curve.
LEMMA EncodedShape ==
    ASSUME NEW domain, NEW pk, NEW msg, NEW r \in Scalar, NEW nonce
    PROVE  LET c == Encoded(domain, pk, msg, r, nonce)
           IN  /\ Shaped(c) /\ c.fmt = "uncompressed" /\ c.eph \in Point
               /\ c.nonce = nonce
<1>1. ScalarMul(r, G) \in Point
  BY GPoint, SMulClosed
<1> DEFINE eph == ScalarMul(r, G)
           sl == Seal(deriveMemoKey(domain, ScalarMul(r, pk), eph, pk), nonce, msg,
                      memoAAD(domain, eph, pk))
           b == FALSE
<1>2. /\ Encoded(domain, pk, msg, r, nonce) = Parts("uncompressed", eph, nonce, sl, b, 0)
      /\ b \in BOOLEAN
  BY DEF Encoded, Parts
<1> HIDE DEF eph, sl, b
<1>3. LET c == Parts("uncompressed", eph, nonce, sl, b, 0)
      IN  Shaped(c) /\ c.fmt = "uncompressed" /\ c.eph = eph /\ c.nonce = nonce
  BY <1>2, PartsFields
<1> QED BY <1>1, <1>2, <1>3, Zenon DEF eph

LEMMA EncryptMemoInv ==
    ASSUME MemoInv, NEW domain, NEW pk, NEW msg \in Texts, NEW r \in Ephemerals, NEW nonce,
           EncryptMemo(domain, pk, msg, r, nonce)
    PROVE  MemoInv'
<1> DEFINE c == Encoded(domain, pk, msg, r, nonce)
           e == [memo |-> c, domain |-> domain, pk |-> pk, msg |-> msg, r |-> r]
<1>1. /\ net' = net \cup {c} /\ sent' = sent \cup {e} /\ opened' = {}
      /\ MayEncrypt(pk, msg)
  BY DEF EncryptMemo
<1>2. r \in Scalar /\ msg.len \in Nat
  BY MemoAssumption
<1>3. /\ Shaped(c) /\ c.fmt = "uncompressed" /\ c.eph \in Point
      /\ c.nonce = nonce
  BY <1>2, EncodedShape
<1>4. e.memo = Encoded(e.domain, e.pk, e.msg, e.r, e.memo.nonce)
  <2>1. e.memo.nonce = nonce
    BY <1>3
  <2> QED BY <2>1
<1>5. e.memo = c /\ e.pk = pk /\ e.msg = msg /\ e.r = r
  OBVIOUS
<1> HIDE DEF c, e
<1>6. SentInv'
  <2> SUFFICES ASSUME NEW s \in sent'
               PROVE  /\ s.memo = Encoded(s.domain, s.pk, s.msg, s.r, s.memo.nonce)
                      /\ s.memo \in net'
                      /\ MayEncrypt(s.pk, s.msg) /\ s.msg.len \in Nat /\ s.r \in Scalar
    BY DEF SentInv
  <2>1. CASE s = e
    BY <2>1, <1>1, <1>2, <1>4, <1>5
  <2>2. CASE s \in sent
    BY <2>2, <1>1 DEF MemoInv, SentInv
  <2> QED BY <1>1, <2>1, <2>2
<1>7. NetInv'
  <2> SUFFICES ASSUME NEW x \in net'
               PROVE  /\ Shaped(x)
                      /\ x.fmt \in {"uncompressed", "compressed"}
                      /\ x.eph \in Point \cup {OffCurve}
                      /\ \E s \in sent' : x.body.seal = s.memo.body.seal
    BY DEF NetInv
  <2>1. CASE x = c
    BY <2>1, <1>1, <1>3, <1>5
  <2>2. CASE x \in net
    BY <2>2, <1>1 DEF MemoInv, NetInv
  <2> QED BY <1>1, <2>1, <2>2
<1>8. OpenedInv'
  BY <1>1 DEF OpenedInv
<1> QED BY <1>6, <1>7, <1>8 DEF MemoInv

\* A damaged copy keeps the invariant if it is built from parts of memos.
LEMMA DamageInv ==
    ASSUME MemoInv,
           NEW f \in {"uncompressed", "compressed"}, NEW e \in Point \cup {OffCurve},
           NEW n, NEW sl, NEW b \in BOOLEAN, NEW x,
           Damage(Parts(f, e, n, sl, b, x)),
           \E s \in sent : sl = s.memo.body.seal
    PROVE  MemoInv'
<1> DEFINE c == Parts(f, e, n, sl, b, x)
<1>1. net' = net \cup {c} /\ sent' = sent /\ opened' = {}
  BY DEF Damage
<1>2. Shaped(c) /\ c.fmt = f /\ c.eph = e /\ c.body.seal = sl
  BY PartsFields
<1> HIDE DEF c
<1>3. SentInv'
  BY <1>1 DEF MemoInv, SentInv
<1>4. NetInv'
  BY <1>1, <1>2 DEF MemoInv, NetInv
<1>5. OpenedInv'
  BY <1>1 DEF OpenedInv
<1> QED BY <1>3, <1>4, <1>5 DEF MemoInv

LEMMA AlterMemoInv ==
    ASSUME MemoInv, NEW c \in net, AlterMemo(c)
    PROVE  MemoInv'
<1> DEFINE f == c.fmt
           e == c.eph
           n == c.nonce
           sl == c.body.seal
           b == c.body.flipped
           x == c.body.extra
<1>1. /\ c = Parts(f, e, n, sl, b, x) /\ b \in BOOLEAN
      /\ f \in {"uncompressed", "compressed"} /\ e \in Point \cup {OffCurve}
      /\ \E s \in sent : sl = s.memo.body.seal
  BY DEF MemoInv, NetInv, Shaped
<1> HIDE DEF f, e, n, sl, b, x
<1>2. ASSUME NEW P \in Point \cup {OffCurve}, NEW fmt \in {"uncompressed", "compressed"},
             Damage([fmt |-> fmt, eph |-> P, nonce |-> c.nonce, body |-> c.body])
      PROVE  MemoInv'
  <2>1. [fmt |-> fmt, eph |-> P, nonce |-> c.nonce, body |-> c.body]
           = Parts(fmt, P, n, sl, b, x)
    BY <1>1 DEF Parts
  <2> QED BY <1>1, <1>2, <2>1, DamageInv
<1>3. ASSUME NEW y \in Nonces, Damage([c EXCEPT !.nonce = y]) PROVE MemoInv'
  <2>1. [c EXCEPT !.nonce = y] = Parts(f, e, y, sl, b, x)
    BY <1>1 DEF Parts
  <2> QED BY <1>1, <1>3, <2>1, DamageInv
<1>4. ASSUME NEW d \in net, Damage([c EXCEPT !.body = d.body]) PROVE MemoInv'
  <2> DEFINE dl == d.body.seal
             db == d.body.flipped
             dx == d.body.extra
  <2>1. /\ d.body = [seal |-> dl, flipped |-> db, extra |-> dx] /\ db \in BOOLEAN
        /\ \E s \in sent : dl = s.memo.body.seal
    BY DEF MemoInv, NetInv, Shaped, Parts
  <2> HIDE DEF dl, db, dx
  <2>2. [c EXCEPT !.body = d.body] = Parts(f, e, n, dl, db, dx)
    BY <1>1, <2>1 DEF Parts
  <2> QED BY <1>1, <1>4, <2>1, <2>2, DamageInv
<1>5. ASSUME Damage([c EXCEPT !.body.flipped = TRUE]) PROVE MemoInv'
  <2> DEFINE t == TRUE
  <2>0. t \in BOOLEAN
    OBVIOUS
  <2>00. Damage([c EXCEPT !.body.flipped = t])
    BY <1>5
  <2> HIDE DEF t
  <2>1. [c EXCEPT !.body.flipped = t] = Parts(f, e, n, sl, t, x)
    BY <1>1 DEF Parts
  <2> QED BY <1>1, <2>0, <2>00, <2>1, DamageInv
<1>6. ASSUME NEW y \in Cuts, Damage([c EXCEPT !.body.extra = y]) PROVE MemoInv'
  <2>1. [c EXCEPT !.body.extra = y] = Parts(f, e, n, sl, b, y)
    BY <1>1 DEF Parts
  <2> QED BY <1>1, <1>6, <2>1, DamageInv
<1> QED BY <1>2, <1>3, <1>4, <1>5, <1>6 DEF AlterMemo

LEMMA MemoStepInv == MemoInv /\ [MemoNext]_memoVars => MemoInv'
<1> SUFFICES ASSUME MemoInv, [MemoNext]_memoVars PROVE MemoInv'
  OBVIOUS
<1>1. ASSUME NEW domain, NEW pk, NEW msg \in Texts, NEW r \in Ephemerals, NEW nonce,
             EncryptMemo(domain, pk, msg, r, nonce)
      PROVE  MemoInv'
  BY <1>1, EncryptMemoInv
<1>2. ASSUME NEW pk, NEW msg, EncryptMemoRefuses(pk, msg) PROVE MemoInv'
  BY <1>2 DEF EncryptMemoRefuses, MemoInv, SentInv, NetInv, OpenedInv
<1>3. ASSUME NEW pk, NEW msg, EncryptMemoRngFails(pk, msg) PROVE MemoInv'
  BY <1>3 DEF EncryptMemoRngFails, MemoInv, SentInv, NetInv, OpenedInv
<1>4. ASSUME NEW c \in net, AlterMemo(c) PROVE MemoInv'
  BY <1>4, AlterMemoInv
<1>5. ASSUME NEW o \in Owners, NEW c \in net, OpenMemo(o, c) PROVE MemoInv'
  <2>1. /\ opened' = {[memo |-> c, owner |-> o, res |-> DecryptMemo(c, SecretKey[o])]}
        /\ net' = net /\ sent' = sent
    BY <1>5 DEF OpenMemo
  <2>2. OpenedInv'
    BY <2>1 DEF OpenedInv
  <2> QED BY <2>1, <2>2 DEF MemoInv, SentInv, NetInv
<1>6. CASE UNCHANGED memoVars
  BY <1>6 DEF memoVars, MemoInv, SentInv, NetInv, OpenedInv
<1> QED BY <1>1, <1>2, <1>3, <1>4, <1>5, <1>6 DEF MemoNext

\* How memos in the network and results of DecryptMemo come about, for every
\* sequence of calls and alterations.
THEOREM MemoInvariant == MemoSpec => []MemoInv
BY MemoInitInv, MemoStepInv, PTL DEF MemoSpec

-----------------------------------------------------------------------------
(* The properties *)

\* Type correctness; what EncryptMemo returned is never too long.
THEOREM MemoTypes == MemoSpec => []MemoTypeOK
<1>1. ASSUME MemoInv PROVE MemoTypeOK
  <2>1. ASSUME NEW s \in sent PROVE s.memo.body.seal.msg.len \in 0..MaxMemoSize
    <3>1. s.memo.body.seal.msg = s.msg
      <4>1. Encoded(s.domain, s.pk, s.msg, s.r, s.memo.nonce).body.seal.msg = s.msg
        BY DEF Encoded, Seal
      <4>2. s.memo = Encoded(s.domain, s.pk, s.msg, s.r, s.memo.nonce)
        BY <1>1 DEF MemoInv, SentInv
      <4> QED BY <4>1, <4>2, Zenon
    <3>2. s.msg.len \in Nat /\ s.msg.len <= MaxMemoSize
      BY <1>1 DEF MemoInv, SentInv, MayEncrypt
    <3>3. \A l \in Nat : l <= MaxMemoSize => l \in 0..MaxMemoSize
      BY DEF MaxMemoSize
    <3> QED BY <3>1, <3>2, <3>3, Zenon
  <2> QED BY <1>1, <2>1 DEF MemoTypeOK, MemoInv, SentInv, NetInv, OpenedInv
<1> QED BY <1>1, MemoInvariant, PTL

\* What a non-empty result of DecryptMemo implies of its arguments.
LEMMA OpenedWith ==
    ASSUME NEW c, NEW sk, DecryptMemo(c, sk) # {}
    PROVE  LET pk == ScalarMul(sk, G)
               s == c.body.seal
           IN  /\ EphemeralOK(c) /\ ValidatePublicKey(pk)
               /\ s.key = deriveMemoKey(memoKDFDomain, ScalarMul(sk, c.eph), c.eph, pk)
               /\ s.nonce = c.nonce /\ s.aad = memoAAD(memoKDFDomain, c.eph, pk)
               /\ ~c.body.flipped /\ c.body.extra = 0
               /\ DecryptMemo(c, sk) = {s.msg}
BY DEF DecryptMemo, Open

\* An opened memo was not sealed with a secret anybody could compute.
THEOREM SharedSecretsNotPublic == MemoSpec => []SharedSecretNotPublic
<1>1. ASSUME MemoInv, NEW d \in opened, d.res # {}
      PROVE  d.memo.body.seal.key.secret # Identity
  <2> DEFINE sk == SecretKey[d.owner]
             c == d.memo
  <2>1. sk \in Scalar /\ DecryptMemo(c, sk) # {}
    BY <1>1, MemoAssumption DEF MemoInv, OpenedInv
  <2>2. /\ EphemeralOK(c) /\ ValidatePublicKey(ScalarMul(sk, G))
        /\ c.body.seal.key = deriveMemoKey(memoKDFDomain, ScalarMul(sk, c.eph), c.eph,
                                           ScalarMul(sk, G))
    BY <2>1, OpenedWith
  <2> HIDE DEF sk, c
  <2>3. c.eph \in Point /\ c.eph # 0
    BY <2>2 DEF EphemeralOK, ValidatePublicKey, IsOnCurve, IsInfinity, Identity
  <2>4. sk # 0
    BY <2>2, SMulZero, GPoint DEF ValidatePublicKey, IsInfinity
  <2>5. ScalarMul(sk, c.eph) # 0
    BY <2>1, <2>3, <2>4, NoZeroDivisors DEF Point, Scalar, ScalarMul
  <2>6. c.body.seal.key.secret = ScalarMul(sk, c.eph)
    BY <2>2 DEF deriveMemoKey
  <2> QED BY <2>5, <2>6 DEF Identity, c
<1>2. MemoInv => SharedSecretNotPublic
  BY <1>1 DEF SharedSecretNotPublic
<1> QED BY <1>2, MemoInvariant, PTL

\* What the history says of a memo and its sealed message.
LEMMA SealOf ==
    ASSUME MemoInv, NEW s \in sent
    PROVE  LET e == ScalarMul(s.r, G)
               sl == s.memo.body.seal
           IN  /\ s.memo = Parts("uncompressed", e, s.memo.nonce, sl, FALSE, 0)
               /\ sl.key = deriveMemoKey(s.domain, ScalarMul(s.r, s.pk), e, s.pk)
               /\ sl.nonce = s.memo.nonce /\ sl.msg = s.msg
               /\ sl.aad = memoAAD(s.domain, e, s.pk)
<1>1. s.memo = Encoded(s.domain, s.pk, s.msg, s.r, s.memo.nonce)
  BY DEF MemoInv, SentInv
<1> DEFINE n == s.memo.nonce
           e == ScalarMul(s.r, G)
           key == deriveMemoKey(s.domain, ScalarMul(s.r, s.pk), e, s.pk)
           aad == memoAAD(s.domain, e, s.pk)
           sl == Seal(key, n, s.msg, aad)
<1>2. s.memo = Parts("uncompressed", e, n, sl, FALSE, 0)
  BY <1>1 DEF Encoded, Parts
<1> HIDE DEF n, e, key, aad
<1>3. sl.key = key /\ sl.nonce = n /\ sl.msg = s.msg /\ sl.aad = aad
  BY DEF Seal
<1> HIDE DEF sl
<1>4. s.memo.body.seal = sl
  BY <1>2 DEF Parts
<1> QED BY <1>2, <1>3, <1>4, Zenon DEF n, e, key, aad

\* DecryptMemo returns only messages of memos that EncryptMemo of the same
\* version made for this owner, byte for byte.
THEOREM MemosAreAuthentic == MemoSpec => []MemoAuthentic
<1>1. ASSUME MemoInv, NEW d \in opened, d.res # {}
      PROVE  \E s \in sent :
                /\ s.memo = d.memo /\ s.domain = memoKDFDomain
                /\ s.pk = PublicKey(d.owner) /\ d.res = {s.msg}
  <2> DEFINE sk == SecretKey[d.owner]
             pk == ScalarMul(sk, G)
             c == d.memo
  <2>1. /\ c \in net /\ DecryptMemo(c, sk) # {} /\ d.res = DecryptMemo(c, sk)
        /\ pk = PublicKey(d.owner)
    BY <1>1 DEF MemoInv, OpenedInv, PublicKey
  <2>2. /\ EphemeralOK(c)
        /\ c.body.seal.nonce = c.nonce /\ c.body.seal.aad = memoAAD(memoKDFDomain, c.eph, pk)
        /\ ~c.body.flipped /\ c.body.extra = 0
        /\ DecryptMemo(c, sk) = {c.body.seal.msg}
    BY <2>1, OpenedWith
  <2>3. Shaped(c) /\ \E s \in sent : c.body.seal = s.memo.body.seal
    BY <1>1, <2>1 DEF MemoInv, NetInv
  <2>4. PICK s \in sent : c.body.seal = s.memo.body.seal
    BY <2>3
  <2> DEFINE sl == s.memo.body.seal
  <2>5. /\ s.memo = Parts("uncompressed", ScalarMul(s.r, G), s.memo.nonce, sl, FALSE, 0)
        /\ sl.nonce = s.memo.nonce /\ sl.msg = s.msg
        /\ sl.aad = memoAAD(s.domain, ScalarMul(s.r, G), s.pk)
    BY <1>1, SealOf
  <2> HIDE DEF c, sk, pk, sl
  <2>6. c.body.seal = sl
    BY <2>4 DEF sl
  <2>7. s.domain = memoKDFDomain /\ ScalarMul(s.r, G) = c.eph /\ s.pk = pk
    BY <2>2, <2>5, <2>6 DEF memoAAD
  <2>8. c.nonce = s.memo.nonce /\ c.fmt = "uncompressed"
    BY <2>2, <2>5, <2>6 DEF EphemeralOK
  <2>9. c = s.memo
    <3>1. c = Parts(c.fmt, c.eph, c.nonce, c.body.seal, c.body.flipped, c.body.extra)
      BY <2>3 DEF Shaped
    <3>2. c.body.flipped = FALSE
      BY <2>2, <2>3, Zenon DEF Shaped
    <3> QED BY <3>1, <3>2, <2>2, <2>5, <2>6, <2>7, <2>8, Zenon
  <2>10. d.res = {s.msg}
    BY <2>1, <2>2, <2>5, <2>6
  <2> QED BY <2>1, <2>7, <2>9, <2>10 DEF c
<1>2. MemoInv => MemoAuthentic
  BY <1>1 DEF MemoAuthentic
<1> QED BY <1>2, MemoInvariant, PTL

\* Diffie-Hellman: both sides compute the same shared secret.
LEMMA SharedSecretAgrees ==
    ASSUME NEW x \in Scalar, NEW r \in Scalar
    PROVE  ScalarMul(x, ScalarMul(r, G)) = ScalarMul(r, ScalarMul(x, G))
<1>1. x \in Int /\ r \in Int /\ r * 1 = r /\ x * 1 = x /\ x * r = r * x
  BY GPoint
<1>2. r % q = r /\ x % q = x
  BY ModSmall DEF Scalar
<1> QED BY <1>1, <1>2 DEF ScalarMul, G

\* A memo that EncryptMemo returned with a non-zero ephemeral secret is opened
\* by the owner of the recipient key, whatever its length up to the limit.
THEOREM MemosAreDelivered == MemoSpec => []MemoDelivered
<1>1. ASSUME MemoInv, NEW d \in opened, NEW s \in sent, d.memo = s.memo,
             s.pk = PublicKey(d.owner), s.domain = memoKDFDomain, s.r # 0
      PROVE  d.res = {s.msg}
  <2> DEFINE sk == SecretKey[d.owner]
             pk == ScalarMul(sk, G)
             c == d.memo
             e == ScalarMul(s.r, G)
             key == deriveMemoKey(memoKDFDomain, ScalarMul(sk, c.eph), c.eph, pk)
  <2>1. sk \in Scalar /\ s.r \in Scalar /\ d.res = DecryptMemo(c, sk) /\ s.pk = pk
    BY <1>1, MemoAssumption DEF MemoInv, OpenedInv, SentInv, PublicKey
  <2>2. /\ c = Parts("uncompressed", e, s.memo.nonce, c.body.seal, FALSE, 0)
        /\ c.body.seal.key = deriveMemoKey(s.domain, ScalarMul(s.r, s.pk), e, s.pk)
        /\ c.body.seal.nonce = s.memo.nonce /\ c.body.seal.msg = s.msg
        /\ c.body.seal.aad = memoAAD(s.domain, e, s.pk)
    BY <1>1, SealOf
  <2>3. ScalarMul(sk, e) = ScalarMul(s.r, pk)
    BY <2>1, SharedSecretAgrees
  <2>4. e \in Point /\ e # Identity
    <3>1. s.r * 1 = s.r /\ s.r % q = s.r
      BY <2>1, GPoint, ModSmall DEF Scalar
    <3> QED BY <1>1, <2>1, <3>1 DEF Scalar, Point, ScalarMul, G, Identity
  <2>5. MayEncrypt(pk, s.msg) /\ s.msg.len \in Nat
    BY <1>1, <2>1 DEF MemoInv, SentInv
  <2> HIDE DEF sk, pk, e
  <2>6. /\ c.fmt = "uncompressed" /\ c.eph = e /\ c.nonce = s.memo.nonce
        /\ c.body.flipped = FALSE /\ c.body.extra = 0
    BY <2>2 DEF Parts
  <2> HIDE DEF c
  <2>7. SizeOK(c)
    <3>1. MemoLen(c) = 76 + s.msg.len + 16 + 0
      BY <2>2, <2>6 DEF MemoLen, MemoOverhead, MemoEphemeralKeySize, MemoNonceSize, MemoTagSize
    <3>2. s.msg.len <= 1024
      BY <2>5 DEF MayEncrypt, MaxMemoSize
    <3> QED BY <2>5, <3>1, <3>2
            DEF SizeOK, MemoOverhead, MemoEphemeralKeySize, MemoNonceSize, MemoTagSize, MaxMemoSize
  <2>8. EphemeralOK(c)
    BY <2>4, <2>6, BadPoints DEF EphemeralOK, IsOnCurve, ValidatePublicKey, IsInfinity
  <2>9. ValidatePublicKey(pk)
    BY <2>5 DEF MayEncrypt
  <2>10. /\ c.body.seal.key = key /\ c.body.seal.nonce = c.nonce
         /\ c.body.seal.aad = memoAAD(memoKDFDomain, c.eph, pk)
    BY <1>1, <2>1, <2>2, <2>3, <2>6
  <2>11. DecryptMemo(c, sk) = Open(key, c.nonce, c.body, memoAAD(memoKDFDomain, c.eph, pk))
    BY <2>7, <2>8, <2>9 DEF DecryptMemo, pk
  <2> HIDE DEF key
  <2>12. Open(key, c.nonce, c.body, memoAAD(memoKDFDomain, c.eph, pk)) = {c.body.seal.msg}
    BY <2>6, <2>10 DEF Open
  <2> QED BY <2>1, <2>2, <2>11, <2>12
<1>2. MemoInv => MemoDelivered
  BY <1>1 DEF MemoDelivered
<1> QED BY <1>2, MemoInvariant, PTL
=============================================================================
