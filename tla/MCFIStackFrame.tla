--------------------------- MODULE MCFIStackFrame ---------------------------
(* Small instances of FIStackFrame: two registers per class instead of three, *)
(* so that expressions of a few nodes overflow them.                          *)
EXTENDS FIStackFrame

MCLimit == [t \in Types |-> 2]
MCSizes == [t \in Types |-> IF t = "i" THEN {1, 8} ELSE {4}]
=============================================================================
