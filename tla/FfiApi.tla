------------------------------- MODULE FfiApi -------------------------------
(***************************************************************************)
(* The OCaml C interface as Vicuna analyses it: vicuna/runtime/src/ffi.c   *)
(* replaces the OCaml runtime by C functions built from the primitives of  *)
(* the runtime domain.  Each operator is one such function (or a group of  *)
(* functions with the same body up to a shape), applied to a flow; x, v, w *)
(* are C variables of type value, p is a variable of type value* and s one *)
(* of type char*.  A cell belongs to the call that creates it: each pointer  *)
(* variable is set by one call site, so it has one cell.                   *)
(***************************************************************************)
EXTENDS RuntimeDomain

CONSTANTS
  Vals,      \* C variables of type value
  Ptrs,      \* C variables of type value *
  CharPtrs,  \* C variables of type char * into OCaml strings
  Named,     \* those of them that are set by caml_named_value
  CellOf,    \* the FFI cell that a pointer variable points to
  Str        \* the kind of OCaml strings

ASSUME LocAssumption ==
  /\ Vals \union Ptrs \union CharPtrs \subseteq Loc
  /\ Vals \intersect Ptrs = {}
  /\ (Vals \union Ptrs) \intersect CharPtrs = {}
  /\ Named \subseteq Ptrs
  /\ CellOf \in [Ptrs -> Loc \ (Vals \union Ptrs \union CharPtrs)]
  /\ \A p, q \in Ptrs : CellOf[p] = CellOf[q] => p = q
  /\ Str \in Kind \ {Imm}

-----------------------------------------------------------------------------
(* Plain C statements on the variables of a stub.                          *)

\* x = y
CopyVal(f, x, y) == ExecUpdate(f, x, StatusVar(f, y), ShapesVar(f, y))

\* x = constant
AssignConst(f, x) == ExecUpdate(f, x, "Untracked", NonOCamlValue)

\* x = y op z
AssignBinop(f, x, y, z) ==
  ExecUpdate(f, x, StatusBinop(StatusVar(f, y), StatusVar(f, z)), NonOCamlValue)

\* x = *p
LoadPtr(f, x, p) == CopyVal(CheckVarAccess(f, p), x, CellOf[p])

\* *p = w
StorePtr(f, p, w) == CopyVal(CheckVarAccess(f, p), CellOf[p], w)

\* A read of the characters behind s.
LoadChar(f, s) == CheckVarAccess(f, s)

-----------------------------------------------------------------------------
(* Values.                                                                 *)

\* The result of _ffi_generate_value followed by _ffi_set_shape.
ReturnValue(f, x, shape) == ExecUpdate(f, x, "Active", shape)

ValOfLong(f, x) == ReturnValue(f, x, {Imm})

ValAsLong(f, v) == EvalAssertShape(f, v, {Imm})

\* The checks every function that looks inside a value starts with.
AssertBlockOf(f, v, shape) ==
  EvalAssertShape(EvalAssertValid(EvalAssertRuntimeLock(f), v), v, shape)

\* A look inside v that gives plain C data: a size, a length, a number.
CamlInspect(f, v, shape) == AssertBlockOf(f, v, shape)

\* The shape of a field of v, whose index is a constant or not.
ShapeAt(f, v, index) == IF index THEN FieldShape(ShapesVar(f, v)) ELSE Kind

\* x = Field(v, i)
ReadField(f, x, v, index) ==
  LET g == AssertBlockOf(f, v, StdBlock)
  IN ReturnValue(g, x, ShapeAt(g, v, index))

\* A fresh cell for p, holding an active value of any shape.
FreshValuePtr(f, p) == ReturnValue(ExecAdd(f, CellOf[p]), CellOf[p], Kind)

\* (mutant) the pointer is left untracked
CamlFieldUntracked(f, p, v, index) ==
  LET g == FreshValuePtr(AssertBlockOf(f, v, StdBlock), p)
  IN ExecUpdate(EvalPassOnShape(g, v, CellOf[p], index), p, "Untracked",
                NonOCamlValue)

\* p = &Field(v, i): the pointer itself is active.
CamlField(f, p, v, index) ==
  LET g == FreshValuePtr(AssertBlockOf(f, v, StdBlock), p)
  IN ExecUpdate(EvalPassOnShape(g, v, CellOf[p], index), p, "Active", NonOCamlValue)

CamlSetField(f, v, w, index) ==
  LET g == EvalAssertShape(
             EvalAssertValid(EvalAssertValid(EvalAssertRuntimeLock(f), v), w),
             v, StdBlock)
  IN EvalAssertShape(g, w, ShapeAt(g, v, index))

\* (mutant) the checks of the pointer are forgotten
CamlModifyUnchecked(f, p, w) ==
  EvalAssertShapeCompat(EvalAssertShape(f, CellOf[p], StdBlock), w, CellOf[p])

CamlModify(f, p, w) ==
  LET g == CheckVarAccess(EvalAssertValid(EvalAssertRuntimeLock(f), p), p)
      h == EvalAssertShape(EvalAssertValid(g, CellOf[p]), CellOf[p], StdBlock)
  IN EvalAssertShapeCompat(h, w, CellOf[p])

\* caml_is_block tests its own parameter: the refined shape is lost on
\* return, only the reachability of the two answers remains.
CamlIsBlock(f, v, answer) ==
  LET g == EvalIsImmediate(f, v, ~answer)
  IN IF g.reach THEN [g EXCEPT !.env = f.env] ELSE g

\* s = String_val(v)
ValAsString(f, s, v) ==
  ExecUpdate(AssertBlockOf(f, v, {Str}), s, "Active", NonOCamlValue)

-----------------------------------------------------------------------------
(* Allocation: every caml_alloc_* and caml_copy_* function.                *)

CamlAlloc(f, x, shape) ==
  ReturnValue(EvalGarbageCollect(EvalAssertRuntimeLock(f)), x, shape)

\* caml_alloc_some roots its own copy of v, allocates and fills the block.
CamlAllocSome(f, x, v) ==
  CamlAlloc(Check(f, StatusVar(f, v) \in Status, "non_variable_root"),
            x, StdBlock)

-----------------------------------------------------------------------------
(* Roots: CAMLparam, CAMLlocal, named values.                              *)

CamlParam(f, x) == ExecRegisterRoot(f, x)

\* (mutant) a declaration is taken for an assignment
RedeclareAssigning(f, x) == ExecUpdate(f, x, "Untracked", NonOCamlValue)

\* A variable leaves its scope and is declared again.
Redeclare(f, x) == ExecAdd(ExecRemove(f, x), x)

\* End_roots() closes a brace and nothing else.
EndRoots(f) == f

CamlLocal(f, x) == ExecRegisterRoot(ValOfLong(f, x), x)

\* (mutant) the cell is not registered
CamlNamedValueUnrooted(f, p) ==
  ExecUpdate(FreshValuePtr(f, p), p, "Untracked", NonOCamlValue)

\* p = caml_named_value(...): the cell is a root, the pointer is C data.
CamlNamedValue(f, p) ==
  ExecUpdate(ExecRegisterRoot(FreshValuePtr(f, p), CellOf[p]),
             p, "Untracked", NonOCamlValue)

-----------------------------------------------------------------------------
(* Runtime lock and exceptions.                                            *)

\* (mutant) the lock is released without a collection
CamlEnterBlockingSectionNoGC(f) ==
  EvalUpdateRuntimeLock(EvalAssertRuntimeLock(f), "Unlocked")

CamlEnterBlockingSection(f) ==
  EvalUpdateRuntimeLock(EvalGarbageCollect(EvalAssertRuntimeLock(f)), "Unlocked")

CamlLeaveBlockingSection(f) == EvalUpdateRuntimeLock(f, "Locked")

\* _ffi_no_return: an infinite loop, nothing is reachable after it.
NoReturn(f) == Unreachable(f)

CamlRaise(f) == NoReturn(EvalAssertRuntimeLock(f))

CamlRaiseWithArg(f, v) ==
  NoReturn(EvalAssertValid(EvalAssertRuntimeLock(f), v))

CamlFailwithValue(f, v) == NoReturn(AssertBlockOf(f, v, {Str}))
=============================================================================
