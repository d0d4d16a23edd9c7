------------------------------- MODULE Crypto -------------------------------
(***************************************************************************)
(* The encryptions of src/src/crypto.rs and src/src/hybird.rs, taken as     *)
(* ideal: an encrypted value opens under the key that closed it and under   *)
(* no other, and a value that was changed does not open.  Keys, contexts    *)
(* and plain texts are opaque; a decryption is the set of what comes out,   *)
(* empty when the code returns an error.                                    *)
(***************************************************************************)
EXTENDS Naturals

NoKey == 0      \* what a truncated file says: the empty text

Text(p) == [kind |-> "text", key |-> <<>>, plain |-> p]

OpenUnder(k, b) == IF b.key = k THEN {b.plain} ELSE {}

EncryptBlob(master, p) == [kind |-> "blob", key |-> <<master>>, plain |-> p]
DecryptBlob(master, b) == OpenUnder(<<master>>, b)

\* Every context has a key of its own, derived from the master key.
DeriveContextBlobKey(master, context) == <<master, context>>

EncryptBlobWithContext(master, context, p) ==
    [kind |-> "context", key |-> DeriveContextBlobKey(master, context), plain |-> p]

\* What does not begin with the magic bytes is read as a blob of the older format.
DecryptBlobWithContext(master, context, b) ==
    IF b.kind = "context"
    THEN OpenUnder(DeriveContextBlobKey(master, context), b)
    ELSE DecryptBlob(master, b)

----------------------------------------------------------------------------
(* Hybrid documents: a key agreement and an encapsulation, both needed.     *)

\* Pair number n; half a pair can be read without the other.
GenerateHybridKeypair(n) == [x |-> n, ml |-> n]

\* Both sides of an agreement compute the same secret.
X25519Shared(own, peer) == {own, peer}

\* To open an encapsulation with another key gives another secret, not an error.
Decapsulate(private, to) == IF to = private THEN <<"secret", to>> ELSE <<"rejected", private>>

DeriveDocumentKey(xShared, mlShared) == <<xShared, mlShared>>

\* once: the ephemeral key of this encryption.
EncryptDocument(public, once, p) ==
    [x |-> once, ml |-> public.ml,
     body |-> [key |-> DeriveDocumentKey(X25519Shared(once, public.x),
                                         Decapsulate(public.ml, public.ml)),
               plain |-> p]]

DecryptDocument(private, d) ==
    OpenUnder(DeriveDocumentKey(X25519Shared(private.x, d.x), Decapsulate(private.ml, d.ml)),
              d.body)
=============================================================================
