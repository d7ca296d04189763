------------------------------- MODULE ArgTypes -------------------------------
(***************************************************************************)
(* The argument types of contract policies (soroban_deep.rs): which JSON   *)
(* values a type accepts and how the typed templates rewrite a value       *)
(* before it is checked.  A value is abstracted to its form: every form    *)
(* stands for the values that all the checks below treat alike.            *)
(***************************************************************************)

\* The JSON kinds that are not strings; a number is negative, a count (it
\* fits u64) or has a fraction.
Scalars == {"null", "bool", "negative", "count", "fraction", "array", "object"}

\* The forms of a string, with an example of each:
\*   text "two words"   word "World"       padded " World "
\*   account "GA..Z"    account_raw " ga..z "  (an address that needs normalizing)
\*   hex "0x0a0b"       hex_raw "0X0A0B"
\*   digits "0100"      grouped "1_000"
Strings == {"text", "word", "padded", "account", "account_raw", "hex", "hex_raw",
            "digits", "grouped"}

Values == Scalars \union Strings

\* The values of each type of a schema (validate_arg_type).
Accepts ==
  [string  |-> Strings,
   number  |-> {"negative", "count", "fraction"},
   bool    |-> {"bool"},
   address |-> {"account"},
   symbol  |-> {"word", "hex", "hex_raw", "digits", "grouped"},
   bytes   |-> {"hex"},
   u64     |-> {"count", "digits"}]

\* The type names a policy may use (is_policy_schema_type).
SchemaTypes == DOMAIN Accepts

\* The name is compared as it is written: "U64" is no type here.
ValidArg(value, ty) == ty \in SchemaTypes /\ value \in Accepts[ty]

\* The types the typed templates normalize (is_typed_template_v2_type).
TypedTypes == {"address", "bytes", "symbol", "u64"}

\* ty_raw.trim().to_ascii_lowercase(), for the spellings the instances use.
CanonicalType(ty) == IF ty = "U64" THEN "u64" ELSE ty

\* What each typed slot rewrites; every other value stays as it is.
Rewrites ==
  [address |-> [v \in {"account_raw"} |-> "account"],
   symbol  |-> [v \in {"padded"} |-> "word"],
   bytes   |-> [v \in {"hex_raw", "digits", "grouped"} |-> "hex"],
   u64     |-> [v \in {"digits", "grouped"} |-> "count"]]

\* normalize_typed_slot_value of a typed type.  The code fails exactly when the
\* rewritten value is not one of the type.
Normalize(value, ty) ==
  IF value \in DOMAIN Rewrites[ty] THEN Rewrites[ty][value] ELSE value

NormalizeFails(value, ty) == ~ValidArg(Normalize(value, ty), ty)
===============================================================================
