# TLA+ models of the ipp.rs message codec

This directory holds TLA+ models of the IPP (Internet Printing Protocol) codec in `src/ipp/src`, with the TLC configurations that check them. The models cover the value codec (`value.rs`), the attribute list and its serializer (`attribute.rs`), and the streaming parser. The parser's source is not under `src/`, so it is modelled from `spec.md`.

## 1. The system

The codec is pure and synchronous. It has no threads, no I/O state, no persistence and no retries. The interesting behaviour is the sequence of calls a caller makes to build a message, the order in which a `HashMap` yields attributes, and the bytes a parser meets on the wire.

Components, their state and operations:

| Component | Source | State | Operations |
|---|---|---|---|
| Tag registry | `model.rs` (not in `src/`) | none | `ValueTag`/`DelimiterTag` bytes, `from_u8` |
| `BoundedString<MAX>` | `value.rs` 16-193 | a `String` of at most MAX bytes | `new` and the `FromStr`/`TryFrom` impls (bound check), `expand` (assert), `shrink`, `From<&[u8; CAP]>` (lossy decode, unwrap), derived `Ord` (byte order) |
| `IppTextValue` | `value.rs` 195-292 | Short/Medium/Long tier and a string | `new`/`TryFrom` (narrowest tier), `From<BoundedString<_>>` impls (the source type's tier) |
| `IppValue` | `value.rs` 300-578 | one of 22 variants | `to_tag`, `to_bytes`, `parse(tag, payload)` |
| `IppValue` text form | `value.rs` 578-653 | none | `Display` (`to_string`), `FromStr` (`parse::<IppValue>`) |
| `IppValueIterator` | `value.rs` 657-702 | value and index | `into_iter`, `next` |
| `IppAttribute` | `attribute.rs` 16-464 | name, value | `new`, `to_bytes` (writes its own name) |
| `IppAttributeGroup` / `IppAttributes` | `attribute.rs` 466-589 | `Vec` of (delimiter tag, `HashMap` key to attribute) | `new`, `add`, `groups_mut().push`, `attributes_mut()` insert/remove, `groups_of`, `to_bytes` |
| `IppParser` | not in `src/` (spec 4.8) | remaining bytes, current group, last attribute, stack of open collections | one record at a time |
| Message header / request | not in `src/` (spec 4.9; `IppParser`, `IppCodec`) | version, op/status code, request id, payload | `to_bytes` = header + attributes + payload |
| CUPS operations | `operation/cups.rs` | none | `CupsGetPrinters` and `CupsDeletePrinter`: `new` (the URI made an `IppString`) and `into_ipp_request`, delegating to `request.rs` |

How they interact: a caller builds an `IppAttributes` with `add`, `groups_mut` and `attributes_mut`. `add` keys an attribute by its name; `attributes_mut` lets the caller use any key, and `to_bytes` finds header attributes by key but skips them by name. The message is written as the 8-byte header, then `IppAttributes::to_bytes`, then the payload.

`IppAttributes::to_bytes` writes the following, in order:
1. Delimiter 0x01.
2. The first operation group, with the `HEADER_ATTRS` (charset, natural-language, printer-uri) first and then the rest in `HashMap` order.
3. Every non-operation group, in vector order.
4. The end delimiter 0x03.

Each attribute is written as `[value tag][u16 name length][name][IppValue::to_bytes]`. Arrays are written as records with empty names. Collections are written as MemberAttrName/value record pairs between BegCollection and EndCollection. The parser turns the records back into groups, using `IppValue::parse` for each payload.

Hard behaviours, each at its line, are listed under `hazards` in `PROJECT.json`. The main ones are:
- `HashMap` iteration order.
- Continuation records (an empty name) and collection framing.
- u16, i32, i8 and `as u8` truncations.
- Panics on short payloads.
- UTF-8-lossy decoding, which must be idempotent for a relay.
- Text tiers that equality compares.

## 2. Modules

In order of dependency:

- **`IppValue`** has no variables. It holds the operators of `value.rs`:
  - `ToTag`, `ToBytes` and `Parse`.
  - `Lossy` models `String::from_utf8_lossy` with the maximal-subpart rule.
  - `TextTier` and `TextNew` model `IppTextValue::new`.
  - `BoundedNew`, `GetLenString` and `ParseLang`.
  - `MemberNames` (with `BytesLess`) gives the `BTreeMap` order of collection members.

  A value is a record whose field `k` names the variant. Strings are byte sequences. Results are `Ok(v)` or `Fail(e)`, and a `bytes` panic is `Fail("Panic")`.
- **`IppAttributes`** (extends `IppValue`) holds the variable `groups`, a sequence of `[tag, attrs]` where `attrs` is the `HashMap`: a function from keys to attributes `[name, value]` (`Attr`). Its operators:
  - `Add` for `add`, `PushGroup` for `groups_mut().push`, and `InsertInGroup`/`RemoveFromGroup` for `groups_mut()[i].attributes_mut().insert/remove`.
  - `FromParsed` keys a parsed list by name, as the parser builds it; `Named`/`NamedGroups` give a group as the names and values its bytes carry.
  - `AttributeBytes` for `IppAttribute::to_bytes`.
  - `ListBytes(gs, ord)` for `IppAttributes::to_bytes`, with the `HashMap` order of each group fixed by `ord`.
  - `ToBytesChoices(gs)`, the set of outputs over every order.
- **`IppParser`** (extends `IppValue`; spec_modelled) is the parse state machine:
  - Variables: `pin` (remaining bytes), `pst` (idle/header/groups/done/error), `perr`, `pgroups`, `plast` (last attribute name), `stack` (open collections, each with the frame it delivers to), `seen` (named records in wire order), `payload` and `pheader` (the header read: version, operation code and the u32 request id as two u16 halves).
  - `HeaderOf` reads the 8 header bytes; `HeaderBytes` writes them back (spec 4.9).
  - Actions: `ReadHeader`, `ReadDelimiter`, `ReadEnd`, `BadDelimiter`, `ReadEof`, `ReadAttribute` (new attribute, array continuation, or collection start) and `ReadMember` (the collection sub-grammar).
- **`IppCups`** (extends `IppAttributes`; no variables) holds the CUPS operations of `cups.rs` as operators:
  - `CupsDeletePrinterNew` is `CupsDeletePrinter::new`, and `UriTryInto` is `TryFrom<Uri>` for `BoundedString` with the 1023-byte `IppString` bound.
  - `CupsGetPrintersRequest` and `CupsDeletePrinterRequest` are the two `into_ipp_request`s. The first keeps the `expect` panic as `Fail("Panic")`.
  - `RequestNew` and `NewInternal` stand for `IppRequestResponse::new`/`new_internal` (spec_modelled, since `request.rs` is not in `src/`): one operation group with `attributes-charset`, `attributes-natural-language` and, when a URI is given, `printer-uri` (spec 4.7 and 8).
- **`IppCodec`** (extends `IppAttributes`, `IppParser` and `IppCups`) composes a builder, the serializer and the parser:
  - The variable `header` is the request's header. `GetPrinters` and `DeletePrinter` start the message from a CUPS request instead of an empty list, and set the header's operation code to 0x4002 or 0x4004 (`IppCups`'s `Operation`). A `CupsDeletePrinter::new` error ends the run in `refused`.
  - `AddAttribute`, `PushEmptyGroup`, `InsertAttribute` and `RemoveAttribute` are caller steps, bounded by `MaxCalls`.
  - `Send` serializes in any `HashMap` order with any payload and starts the parser.
  - `Receive` takes one parser step; `Finished` ends the run.
- **`IppProxy`** composes parse, re-serialize and parse:
  - `Arrive` starts a parse of arbitrary received bytes.
  - `Step` takes one parser step.
  - `Relay` sets `groups` to the parsed groups, serializes them (any order) behind the parsed header (`HeaderBytes(pheader)`) and the payload, and parses again.
- **`IppMessage`** is the abstract specification of the codec: a message the caller edits at will (`Edit`), `Send`s with a payload, and that is eventually `Deliver`ed as `Delivered(msg)`: the first operation group (an empty one when there is none), then every other group in order, each as names and values, with the payload. The message has a header `hdr` (version, operation, request id) the caller chooses. It has no bytes, no HashMap order and no parser. `IppCodec` defines `Message == INSTANCE IppMessage WITH ...`:
  - `msg` is `NamedGroups(groups)` and `hdr` is `header`;
  - `stage` is `build` while building, `delivered` once the parse returned Ok, and `sent` in between;
  - `out` is the parsed header, groups and payload once the parse returned Ok;
  - `pay` is the payload sent.

  `MessageSpec == Message!Spec` is checked as a PROPERTY.
- **`IppValueText`** (extends `IppValue`; no variables) holds `FromStr` for `IppValue` and `Display` for the variants `FromStr` returns or that print without nesting. `ParseI32` is i32's `from_str`: a sign, digits, Empty/InvalidDigit, and overflow decided on the digit string, with negatives accumulated downward as Rust does. `Decimal` prints an i32, the magnitude of a negative being `-(i+1)` plus one, so i32::MIN never needs 2^31.
- **`IppConversions`** (extends `IppValueText`) is a caller's string conversions, bounded by `MaxOps` in total:
  - One `BoundedString` moved through `New` (`new`, `FromStr`, `TryFrom`), `Expand`, `Shrink` and `FromArray(a, m)` (`From<&[u8; CAP]>`).
  - The `IppTextValue` made from it (`TextFrom`, `From<BoundedString<_>>`) or from a str (`TextTryNew`, `IppTextValue::new`).
  - An `IppValue` read from a str (`Read`), printed (`Show`) and read back (`ReadBack`).

  An `Err` drops the value, since each of these takes it by value. A panic ends the run.
- **`IppValueCodec`** (extends `IppValue`) is one value on its own. `Encode` is `to_bytes`. `Decode` is `parse` of the tag and the payload after the length, as the `value_check` test does. `IterNext` is one `IppValueIterator::next`, with `IntoIter` as its start.

`MC_Proxy` extends `IppCups` too, to build the CUPS requests it relays. The MC modules (`MC_Codec`, `MC_Proxy`, `MC_ValueCodec`, `MC_Conversions`) give the constants: one- or two-byte names and strings, and catalogues of values covering every wire shape.

The round trip `parse(serialize(m)) = m` is stated both as invariants (`RoundTrip`, `RelayStable`, `ValueRoundTrip`) and, for the codec as a whole, as the refinement of `IppMessage`. The refinement is stronger than `RoundTrip`: it also covers lists with no operation group and with empty groups, and it requires that delivery happens. Lists with two operation groups are not built by the codec run, because `add` joins the first group with its tag; the proxy's `second_op_group` run covers them.

## 3. Runs

Passing runs:

| Run | cfg | Properties | What it shows |
|---|---|---|---|
| codec_roundtrip | `MC_Codec.cfg` | TypeOK, HeaderOrder, MessageSpec | The codec implements `IppMessage` for every list built with up to 3 calls. The calls are 12 `add` calls: Charset, NaturalLanguage, Uri, Integer, an Array of Integers, a nested Collection (with Integer, Boolean and a member Array of Keywords), TextWithLanguage, DateTime, Resolution, RangeOfInteger, Other and NoValue. The other variants round-trip in the value run. pushes of job groups, and `attributes_mut` inserts (under matching keys) and removes on any group. Every HashMap order maps to an abstract step or a stutter, and every sent list is delivered as the abstract message says. This includes lists with no operation group and with empty groups. A message may also start as a CUPS-Get-Printers or CUPS-Delete-Printer request, with a URI of 2, 1023 or 1024 bytes. The 1023-byte printer-uri reaches the peer; the 1024-byte one is refused by `CupsDeletePrinter::new`. Charset, natural-language and printer-uri come first, in that order, and never again. The header, with the CUPS operation code and a request id of 2^31+4 (past i32::MAX), reaches the peer unchanged. 37,442 states. |
| proxy_relay | `MC_Proxy.cfg` | TypeOK, RelayStable | Relaying is stable. The inputs are three messages (arrays, collections, arrays of collections with member arrays, Other, DateTime), all their truncations, and all one-byte corruptions by nine chosen bytes. Any input that parses to one operation group re-serializes to bytes that parse to the same groups and payload. Two more inputs carry a natural-language string of 63 bytes (accepted) and of 64 bytes (InvalidStringLength). Two more are the requests the CUPS constructors build (`IppCups`), one with a 1023-byte printer-uri, as a CUPS client sends them. Every parser branch and error kind is reached. 44,390 states. |
| conversions | `MC_Conversions.cfg` | TypeOK, WithinBound, ReparseStable | Any three conversions keep every BoundedString within its MAX and every text value within its variant's bound, all holding valid UTF-8. The conversions are new, expand, shrink, from_array, IppTextValue new/from, and IppValue FromStr/Display/FromStr, on strings of 0-4, 127, 128, 255, 256, 1023 and 1024 bytes and on arrays of 3 bytes. Any value `FromStr` makes reads back the same after `Display`, from texts at every edge of the i32 grammar (`-0`, `+5`, `007`, i32::MIN/MAX and one past them, `+-`, Arabic digits) and keywords of 255/256 bytes. 14,853 states. |
| value_codec | `MC_ValueCodec.cfg` | TypeOK, ValueRoundTrip, IterYieldsAll, IterTerminates | Scalars at i32, u16 and i8 edges, 1-4-byte UTF-8 strings and unknown tags round-trip. The iterator yields an Array's items in order, a Collection's values once each, and a scalar once, and then returns None. 1,107 states. |

Violation runs. Each checks one property the spec or a comment states, and TLC finds it broken by what the code does. Details are under `findings` in `PROJECT.json`. Four more disagreements are recorded as hazards, each with the catalogue that shows it:
- `MC_TierCalls`: text made `Medium` via `From` comes back `Short`.
- `MC_EmptyNameCalls`: an empty attribute name is read as a continuation.
- `MC_WideUtcSamples`: a `utc_dir` above U+00FF is truncated.
- `MC_NestedArrayCalls`: an Array of Arrays is written as one flat 1setOf.

| Run | cfg | Property | Disagreement |
|---|---|---|---|
| empty_message | `MC_Codec_Empty.cfg` | EmptyMessageBytes | An empty message is `hdr 01 03`, not `hdr 03` (spec 8, scenario 4). |
| empty_array | `MC_Codec_EmptyArray.cfg` | RoundTrip | An empty Array has no length field, so the message no longer parses. |
| job_id_order | `MC_Codec_Target.cfg` | OperationTargetOrder | job-id is not forced to be 4th (comment at attribute.rs 415-418). |
| parser_panic | `MC_Proxy_Panic.cfg` | NoPanic | A short Integer payload panics in `get_i32` (spec 7 says Truncated). |
| second_op_group | `MC_Proxy_TwoOps.cfg` | RelayKeepsAttributes | A second operation group is dropped by `to_bytes`. |
| key_name_mismatch | `MC_Codec_KeyName.cfg` | RoundTrip | An attribute named attributes-charset inserted with `attributes_mut` under another key is written by neither loop of `to_bytes`. |
| mixed_array | `MC_Codec_MixedArray.cfg` | RoundTrip | `[Integer 5, RangeOfInteger 1..3]` comes back, without error, as `[Integer 5, Integer 1]`. |
| from_array_lossy | `MC_Conversions_Lossy.cfg` | FromArrayTotal | `BoundedString::<3>::from(&[0xC3, b'a', b'a'])` lossy-decodes to 5 bytes and the unwrap panics. |

Every property of a passing run has a mutant in `PROJECT.json`: a plausible bug in one mapped operator that TLC then catches. The mutants are:
- I32 without the sign.
- GetI32 read unsigned.
- ListBytes repeating the header attributes.
- ParseLang reading text before language.
- The iterator starting at 1.
- The iterator not advancing on a Collection.
- ListBytes writing the operation delimiter only when an operation group exists (caught by the refinement, which also covers lists without an operation group).
- Expand without its assert.
- FromArray taking the bytes unchecked instead of lossy-decoded.
- Decimal dropping the sign of a negative number.
- HeaderBytes writing the request id's halves in the wrong order (caught by the refinement: the delivered header differs from the one sent).
- `TryFrom<Uri>` without its length check (caught by the refinement: the peer refuses the 1024-byte printer-uri, and the message is never delivered).

## 4. Bounds and why they are enough

- **Names and strings** are one or two bytes. Lengths enter the model only through `U16`/`I32`, which keep their widths, so longer strings add no new control paths. The exceptions are lengths of 65536 or more and string-bound violations; both are listed as hazards.
- **`MaxCalls = 3`** allows a group to be opened, overwritten under one name, and joined by another group, as well as a header and a non-header attribute in one operation group. It also allows a list with no operation group, an emptied group, and a header attribute inserted directly. `PushTags = {2}` adds empty job groups next to `add`'s groups. At 4 calls (161,194 states) the liveness part of the refinement takes over five minutes, while the invariants still hold.
- **Proxy inputs** include every truncation, so every EOF point of the record grammar is reached. The one-byte corruptions use the bytes 0, 2, 3, 16, 33, 52, 55, 74 and 200. These hit delimiter, value-tag, length and junk positions, and reach every error kind of the parser except InvalidStringLength. Two further inputs carry a naturalLanguage value of 63 and of 64 bytes, on both sides of `IppLanguage`'s bound, and reach it.
- **BoundedString lengths** sit on both sides of every bound the code tests: MAX 3 for arrays (and the 2- and 3-byte UTF-8 forms), and 127/128, 255/256 and 1023/1024 for the text tiers. Three conversions allow new, shrink or expand, and then a text conversion.
- **CUPS URIs** are 2, 1023 and 1024 bytes: both sides of the `IppString` bound that `CupsDeletePrinter::new` applies, which is also the bound the peer's parser applies to a `Uri`. The CUPS constructor counts as one of the `MaxCalls` calls.
- **Request id** is `<<32768, 4>>` (2^31+4) in the refinement run, so a u32 id past i32::MAX must survive the round trip; the halves differ, so a swap shows.
- **`MaxYield = 3`** is the size of the largest sample's element list. It never limits the real iterator; it only bounds a non-terminating mutant.

## 5. Fairness

- `IppCodec` assumes `WF_vars(Receive)`. Once the bytes are handed to the parser, its loop runs to the end of the bytes within one call. The builder steps and `Send` have no fairness, since a caller may never send. `MessageSpec` needs this, and only this, to show that sent messages are delivered.
- `IppProxy` and `IppConversions` check only safety. `MC_Conversions.cfg` sets `CHECK_DEADLOCK FALSE`, because a panic, or the last of the bounded conversions, really ends the program.
- `IppValueCodec` assumes `WF_vars(IterNext)`. A caller that iterates (`for x in &value`) calls `next` until it returns None. That is what `IterTerminates` relies on.
- The value run sets `CHECK_DEADLOCK FALSE`. Once a value has been encoded, decoded and walked, nothing is left to do, and the behaviour really does stop.

## 6. Not modelled

- **`Display` of Array, Collection, DateTime, Resolution and Other:** formatting with no state that no property reads. `FromStr` never returns these variants.
- **The ~280 attribute-name constants:** only the four the serializer treats specially are modelled.
- **Accessors of `BoundedString` and `IppTextValue`** (`as_str`, `len`, `Deref`, `AsRef`, `Borrow`, `Display`): they change no state. `TryFrom<Uri>` is `new` over the URI's text, and is covered by `New` over the inputs.
- **The `ipp3d` attribute-name lists (attribute.rs 29-200):** constant data that no code in `src/` reads.
- **`new_internal`'s choice of version and request id:** `request.rs` is not in `src/` and the spec does not fix them, so the caller's version 1.1 and request id are kept.
- **`http::Uri`'s `to_string`:** URI parsing is out of the spec's scope. A URI is modelled as its text.
- **The parser and the header/request framing:** modelled from spec sections 4.8, 4.9 and 7 (marked `spec_modelled`).
- **Names and `Other` payloads of 65536 bytes or more:** TLC cannot hold them. `U16` keeps the `% 65536` truncation, but no run reaches it, so these are hazards without a property.

## 7. Plan for later work

1. `Display` is not injective across variants: a Keyword "42" prints as Integer 42 does. This is a hazard without a property, because nothing states that printed values are to be parsed back.
