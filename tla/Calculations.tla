---------------------------- MODULE Calculations ----------------------------
(***************************************************************************)
(* The calculations without steps of their own: next to the checks of fees *)
(* and endpoints (Checks) those that recurse over their data, decoding a   *)
(* key and counting tests.  A behaviour picks a bounded input and          *)
(* evaluates it; the properties compare the result with a definition of    *)
(* what it is meant to be.                                                 *)
(***************************************************************************)
EXTENDS Asn1Decoder, TestCount, Checks

-----------------------------------------------------------------------------
\* Keys: their DER encoding by its rules, lengths of one byte and of more, and
\* integers of up to five bytes ahead of the key.
LengthBytes(n) == CASE n < 128 -> <<n>>
                    [] n \in 128..255 -> <<129, n>>
                    [] OTHER -> <<130, n \div 256, n % 256>>
Der(tag, content) == <<tag>> \o LengthBytes(Len(content)) \o content

Key(n) == [i \in 1..n |-> (6 * i + 42) % 256]
Curve == Der(6, <<43, 129, 4, 0, 10>>)
Algorithm == Der(48, Der(6, <<42, 134, 72, 206, 61, 2, 1>>) \o Curve)

Encoded(form, int, key) ==
  CASE form = "public" -> Der(48, Algorithm \o Der(3, <<0>> \o key))
    [] form = "sec1" -> Der(48, Der(2, int) \o Der(4, key) \o Der(160, Curve)
                                \o Der(161, Der(3, <<0>> \o Key(5))))
    [] form = "pkcs8" -> Der(48, Der(2, int) \o Algorithm \o Der(4, Der(4, key)))
    [] form = "text first" -> Der(48, Der(12, <<65, 66>>) \o Der(4, key))
    [] form = "no key" -> Der(48, Der(2, int) \o Algorithm)

KeyInput ==
  [topic : {"key"}, form : {"public", "sec1", "pkcs8", "text first", "no key"},
   int : {<<1>>, <<1, 0>>, <<127, 255, 0>>, <<255, 1, 128, 0>>, <<1, 255, 0, 127, 128>>},
   length : {1, 32, 33} \cup 95..130 \cup 220..260]

-----------------------------------------------------------------------------
\* Where nothing is to be counted.
Uncounted ==
  /\ repo = [d \in {Root} |-> << <<>> >>] /\ failing = [pages |-> {}, files |-> {}]
  /\ calls = <<>> /\ files = <<>> /\ visited = {}
  /\ next = 1 /\ totals = [implemented |-> 0, notImplemented |-> 0]

Init ==
  \/ ChecksInit /\ Uncounted
  \/ input \in KeyInput /\ done = FALSE /\ result = <<>> /\ Uncounted
  \/ input = [topic |-> "count"] /\ done = TRUE /\ result = <<>> /\ CountInit

DecodeKey == Evaluate("key", getRawKey(Encoded(input.form, input.int, Key(input.length))))

Next ==
  \/ ChecksNext /\ UNCHANGED countVars
  \/ DecodeKey /\ UNCHANGED countVars
  \/ CountNext /\ UNCHANGED vars

Spec == Init /\ [][Next]_<<vars, countVars>>

-----------------------------------------------------------------------------
\* Properties

\* The raw key of a public key, and of a private key as SEC1 has it, is the key,
\* whatever the lengths of the elements and of what is ahead of it; an element
\* the decoder does not know gives an error and never part of a key, and so
\* does a structure without a key (asn1-decoder.ts:170-183).
RawKeyRight ==
  done /\ input.topic = "key" =>
    /\ input.form \in {"public", "sec1"} => result = Key(input.length)
    /\ input.form \in {"text first", "no key"} => result = NoKey

\* asn1-decoder.ts:165-168: the decoder "Extracts the raw key (public or
\* private) from the parsed ASN.1 structure", or throws "If no key is found in
\* the provided data".  Of the private keys, those in PKCS#8 have the key one
\* level down, in an octet string that is the content of another.
RawKeyExtracted ==
  done /\ input.topic = "key" /\ input.form \in {"public", "sec1", "pkcs8"}
    => result = Key(input.length)
=============================================================================
