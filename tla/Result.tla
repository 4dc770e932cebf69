-------------------------------- MODULE Result ---------------------------------
(***************************************************************************)
(* result.ts: a value or an error.  Which of them it is, its methods tell  *)
(* by what counts for true: a Result of a Falsy payload is on neither side.*)
(***************************************************************************)
CONSTANTS undefined,
          Falsy      \* the values that JavaScript takes for false

New(value, error) == [value |-> value, error |-> error]
Ok(value)  == New(value, undefined)
Err(error) == New(undefined, error)

IsOk(r)  == r.value \notin Falsy
IsErr(r) == r.error \notin Falsy

(* r.map(() => x) and r.map_err(() => x); x may be undefined, as it is in  *)
(* `map_err(console.error)`.                                               *)
Map(r, x)    == IF IsOk(r) THEN New(x, undefined) ELSE New(undefined, r.error)
(* Mutant: the error that a callback makes is taken for the value.         *)
MapErrSwapped(r, x) ==
  IF IsErr(r) THEN New(x, undefined) ELSE New(r.value, undefined)
MapErr(r, x) == IF IsErr(r) THEN New(undefined, x) ELSE New(r.value, undefined)
================================================================================
