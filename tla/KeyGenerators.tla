---------------------------- MODULE KeyGenerators ----------------------------
(***************************************************************************)
(* The three key generators (thaumiel-keygen): what each puts into a       *)
(* license key and its metadata, and what it checks when the key comes     *)
(* back.                                                                   *)
(*                                                                         *)
(* Abstracted: a signature or checksum verifies exactly under the secret   *)
(* that made it; texts are well formed, as those in the table are; an      *)
(* ed25519 secret stands for its public key too.  Time is counted in       *)
(* fractions of a second.                                                  *)
(***************************************************************************)
EXTENDS Integers

CONSTANTS
    Second,         \* how many fractions of it the model tells apart
    None

Generators == {"opaque", "hmac", "ed25519"}

\* Mutant of WholeSeconds: rounded to the next second.
RoundedSeconds(t) == ((t + Second - 1) \div Second) * Second

\* expires_at.timestamp(): the payload counts whole seconds.
WholeSeconds(t) == (t \div Second) * Second

\* A random token; one with a checksum; and a signed copy of the request.
OpaqueKey == [format |-> "opaque"]

HmacKey(secret) == [format |-> "hmac", signer |-> secret]

Ed25519Key(secret, product, expires) ==
    [format |-> "ed25519", signer |-> secret, product |-> product,
     expires |-> IF expires = None THEN None ELSE WholeSeconds(expires)]

\* The key that generator g, holding a secret, makes for a request.
GeneratedKey(g, secret, product, expires) ==
    CASE g = "opaque"  -> OpaqueKey
      [] g = "hmac"    -> HmacKey(secret)
      [] g = "ed25519" -> Ed25519Key(secret, product, expires)

\* Mutant of MergedMetadata: what the client sent is kept.
MergedUserFirst(user, g, secret) ==
    IF g = "ed25519" /\ user = None THEN secret ELSE user

\* The public key in a license's metadata: the generator's overwrites what
\* the client sent under that name.
MergedMetadata(user, g, secret) == IF g = "ed25519" THEN secret ELSE user

\* The key on the license goes before the generator's own.
VerifyingKey(metadata, secret) == IF metadata # None THEN metadata ELSE secret

ChecksumMatches(key, secret) == key.signer = secret

SignedFor(key, verifying, product, now) ==
    /\ key.signer = verifying
    /\ key.product = product
    /\ key.expires # None => now <= key.expires

\* What generator g, holding a secret now, answers for a key and its context.
Validates(g, secret, key, metadata, product, now) ==
    /\ key.format = g
    /\ g = "hmac" => ChecksumMatches(key, secret)
    /\ g = "ed25519" =>
           SignedFor(key, VerifyingKey(metadata, secret), product, now)
=============================================================================
