----------------------------- MODULE FieldStore -----------------------------
(***************************************************************************)
(* What a register map promises to the program that uses it: a register is *)
(* a family of independent named fields.  An operation names some fields,  *)
(* takes effect at once, changes the fields it names as its form says and  *)
(* leaves the others alone; a local copy (shadow) of the register obeys    *)
(* the same operations.  Only plain read/write (Rw) fields store what is   *)
(* written, so only they appear here.                                      *)
(***************************************************************************)
EXTENDS MmioWords

VARIABLES layout,      \* the fields of the register
          val,         \* payload of every Rw field, live register
          staged,      \* payload of every Rw field, local copy
          req,         \* the operation the program is executing
          res          \* the result of the last read

vars == <<layout, val, staged, req, res>>

Stored == {f \in layout : f.access = "Rw"}

WriteOps == {"assign", "set", "or", "clear", "keep", "toggle"}
ReadOps  == {"get", "is"}
CopyOps  == {"snapshot", "commit"}
Ops      == WriteOps \cup ReadOps \cup CopyOps

None == [op |-> "none", target |-> "live", arg |-> <<>>]

IsRequest(r) == /\ r.op \in Ops
                /\ r.target \in {"live", "shadow"}
                /\ DOMAIN r.arg \subseteq layout

\* The payload bits of `payload` that field f can hold
Fit(f, payload) ==
  (IF f.kind = "value" THEN FieldType(f, payload) ELSE payload) \cap valueMask(f)

\* Field by field, what operation op with argument arg makes of the payloads old
Applied(op, arg, old) ==
  [f \in Stored |->
     IF f \in DOMAIN arg
     THEN CASE op \in {"assign", "set"} -> Fit(f, arg[f])
            [] op = "or"                -> old[f] \cup Fit(f, arg[f])
            [] op = "clear"             -> {}
            [] op = "keep"              -> old[f]
            [] op = "toggle"            -> valueMask(f) \ old[f]
     ELSE IF op \in {"assign", "keep"} THEN {} ELSE old[f]]

Init == /\ val \in [Stored -> Word]
        /\ staged = [f \in Stored |-> {}]
        /\ req = None
        /\ res = {}

Begin == /\ req = None
         /\ IsRequest(req')
         /\ res' = {}
         /\ UNCHANGED <<layout, val, staged>>

Finish ==
  /\ req # None
  /\ req' = None
  /\ \/ /\ req.op \in WriteOps /\ req.target = "live"
        /\ val' = Applied(req.op, req.arg, val)
        /\ UNCHANGED <<staged, res>>
     \/ /\ req.op \in WriteOps /\ req.target = "shadow"
        /\ staged' = Applied(req.op, req.arg, staged)
        /\ UNCHANGED <<val, res>>
     \/ /\ req.op = "snapshot" /\ staged' = val /\ UNCHANGED <<val, res>>
     \/ /\ req.op = "commit" /\ val' = staged /\ UNCHANGED <<staged, res>>
     \/ /\ req.op \in ReadOps
        /\ LET from == IF req.target = "live" THEN val ELSE staged
           IN  DOMAIN req.arg \subseteq Stored =>
                 res' = IF req.op = "get"
                        THEN UNION {IF f.kind = "value" THEN FieldType(f, from[f]) ELSE from[f] :
                                      f \in DOMAIN req.arg}
                        ELSE If(\A f \in DOMAIN req.arg : from[f] = Fit(f, req.arg[f]), 0)
        /\ UNCHANGED <<val, staged>>
  /\ UNCHANGED layout

\* The interrupt handler performs one whole write operation on one field.
IsrWrite == /\ UNCHANGED <<layout, staged, req, res>>
            /\ \E op \in WriteOps, f \in layout : \E p \in SUBSET valueMask(f) :
                 val' = Applied(op, [g \in {f} |-> p], val)

Next == Begin \/ Finish \/ IsrWrite

Spec == Init /\ [][Next]_vars
=============================================================================
