--------------------------- MODULE ModuleValidator ---------------------------
(***************************************************************************)
(* ModuleValidator.validate and the type checks of checker.ts: whether     *)
(* constructor arguments fit the ABI of a contract.                        *)
(*                                                                         *)
(* A value has a kind (its typeof, an object by what it is), the binding   *)
(* or the text that it is in `name', and its number in `num'.  An array    *)
(* has `array' and stands for one whose elements are all such values.      *)
(* A type is a Solidity type: base, bits and whether it is an array.       *)
(***************************************************************************)
EXTENDS Integers, Sequences

Nothing == "none"     \* no error

Number(n) == [array |-> FALSE, kind |-> "number", name |-> "", num |-> n]
Digits(n) == [array |-> FALSE, kind |-> "string", name |-> "digits", num |-> n]
Text(s)   == [array |-> FALSE, kind |-> "string", name |-> s, num |-> 0]
Bound(b)  == [array |-> FALSE, kind |-> "binding", name |-> b, num |-> 0]
Many(v)   == [v EXCEPT !.array = TRUE]

Type(base, bits) == [array |-> FALSE, base |-> base, bits |-> bits]
ManyOf(type)     == [type EXCEPT !.array = TRUE]

Abs(n) == IF n < 0 THEN -n ELSE n

(***************************************************************************)
(* handleInt.  The number of bits is what follows "int" in the name of the *)
(* type, so that "uint8[]" has 8[] bits, which BigNumber does not parse.   *)
(***************************************************************************)
LimitInclusive(type) == 2 ^ (IF type.base = "uint" THEN type.bits ELSE type.bits - 1)  \* Mutant of Limit
Limit(type) == 2 ^ (IF type.base = "uint" THEN type.bits ELSE type.bits - 1) - 1

IntAccepted(n, type) ==
  /\ ~type.array
  /\ n < 0 => type.base # "uint"
  /\ Abs(n) <= Limit(type)

IsInt(type) == type.base \in {"int", "uint"}

\* handleString: what is neither a number nor an address is not looked at.
StringAccepted(value, type) ==
  CASE IsInt(type)            -> value.name = "digits" /\ IntAccepted(value.num, type)
    [] type.base = "address"  -> value.name = "address"
    [] OTHER                  -> TRUE

\* handleTypes, and handleArray, which checks each element against the type
\* of the whole.
Accepted(value, type) ==
  CASE value.kind = "number"    -> IsInt(type) /\ IntAccepted(value.num, type)
    [] value.kind = "bignumber" -> StringAccepted([value EXCEPT !.name = "digits"], type)
    [] value.kind = "string"    -> StringAccepted(value, type)
    [] value.kind = "boolean"   -> type.base = "bool"
    [] value.kind = "binding"   -> type.base = "address" /\ ~type.array
    [] OTHER                    -> FALSE

(***************************************************************************)
(* The error that validate throws for a binding, `inputs' being the types  *)
(* of its constructor's parameters.  A binding with a deployFn may have    *)
(* any number of arguments, but those beyond the inputs have no type.      *)
(***************************************************************************)
BindingError(args, inputs, custom) ==
  IF Len(args) # Len(inputs) /\ ~custom THEN "AbiMismatch"
  ELSE IF \E i \in DOMAIN args : i > Len(inputs) THEN "TypeError"
  ELSE IF \E i \in DOMAIN args : ~Accepted(args[i], inputs[i]) THEN "ContractTypeMismatch"
  ELSE Nothing

-----------------------------------------------------------------------------
(* What Solidity accepts for a number. *)
Fits(n, type) ==
  IF type.base = "uint" THEN n \in 0 .. 2 ^ type.bits - 1
                        ELSE n \in -(2 ^ (type.bits - 1)) .. 2 ^ (type.bits - 1) - 1
=============================================================================
