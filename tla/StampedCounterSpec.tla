--------------------------- MODULE StampedCounterSpec ---------------------------
(***************************************************************************)
(* What concurrent::stamped_counter promises (the class comment of         *)
(* src/stamped_counter.hpp): a stamp and a counter, two unsigned W-bit     *)
(* quantities, each read, assigned and updated with the arithmetic         *)
(* operators individually; overflow is not checked (it wraps, as the       *)
(* unsigned types do).  This is the pair kept as two separate fields; the  *)
(* packed implementation StampedCounter is shown to refine it.             *)
(*                                                                         *)
(* Where C++ leaves the result undefined, the contract allows any outcome  *)
(* the build can produce: a shift by W bits or more gives any W-bit value, *)
(* and a division or remainder by zero traps (SIGFPE on x86), which ends   *)
(* the process.                                                            *)
(***************************************************************************)
EXTENDS Naturals, Bitwise

CONSTANTS
    W,      \* bits of stamp_type and of counter_type (code: 32)
    Args    \* the right-hand operands the model tries

ASSUME W \in Nat \ {0} /\ Args \subseteq Nat

Field == 0 .. 2 ^ W - 1

(* The compound assignment operators of both reference classes.           *)
Ops == {"+", "-", "*", "/", "%", "&", "|", "^", "<<", ">>"}

(* a op b in W-bit unsigned arithmetic: the set of results the build can  *)
(* produce (one, or all of Field where C++ says undefined).  Division and  *)
(* remainder by zero are handled by Traps.                                *)
FieldOp(o, a, b) ==
    LET m == 2 ^ W
        bw == b % m      \* the operand converted to stamp_type / counter_type
    IN  CASE o = "+"  -> {(a + bw) % m}
          [] o = "-"  -> {(a + m - bw) % m}
          [] o = "*"  -> {(a * bw) % m}
          [] o = "/"  -> {a \div bw}
          [] o = "%"  -> {a % bw}
          [] o = "&"  -> {a & bw}
          [] o = "|"  -> {a | bw}
          [] o = "^"  -> {a ^^ bw}
          [] o = "<<" -> IF bw < W THEN {(a * 2 ^ bw) % m} ELSE Field
          [] o = ">>" -> IF bw < W THEN {a \div 2 ^ bw} ELSE Field

Traps(o, b) == o \in {"/", "%"} /\ b % 2 ^ W = 0

VARIABLES
    stamp,      \* the stamp part
    counter,    \* the counter part
    ret,        \* the value the last postfix ++ / -- returned
    trapped,    \* a division by zero ended the process
    same,       \* the result of the last comparison ==
    call        \* the last member call: <<part, operator, operands>>

vars == <<stamp, counter, ret, trapped, same, call>>

Init ==
    /\ stamp \in Field /\ counter \in Field
    /\ ret = 0 /\ trapped = FALSE /\ same = FALSE /\ call = <<"none", "none", 0, 0>>

(* The part named src of this object, as an operand: its value when the  *)
(* call starts.                                                            *)
Parts == {"stamp", "counter"}
Part(src) == IF src = "stamp" THEN stamp ELSE counter

(* Each member call is recorded in call: <<part, operator, operands>>, the *)
(* part written as "s<-c" when the operand is the counter part read        *)
(* through a reference, and so on.                                         *)
Tag(dst, src) == IF dst = "stamp" THEN IF src = "stamp" THEN "s<-s" ELSE "s<-c"
                                  ELSE IF src = "stamp" THEN "c<-s" ELSE "c<-c"
Postfix(o) == IF o = "+" THEN "++(int)" ELSE "--(int)"

(* Construction from a stamp and a counter, or assignment of any other     *)
(* stamped_counter.                                                        *)
SetBoth(s, c) ==
    /\ call' = <<"both", "=", s, c>>
    /\ ~trapped
    /\ stamp' = s /\ counter' = c
    /\ UNCHANGED <<ret, trapped, same>>

(* Comparison with another stamped_counter holding s and c: equal exactly  *)
(* when both parts are.                                                    *)
Equals(s, c) ==
    /\ call' = <<"both", "==", s, c>>
    /\ ~trapped /\ same' = (stamp = s /\ counter = c)
    /\ UNCHANGED <<stamp, counter, ret, trapped>>

(* stamp() = s, and stamp() op= b.                                         *)
SetStamp(s, c) ==
    /\ call' = c
    /\ ~trapped /\ stamp' = s
    /\ UNCHANGED <<counter, ret, trapped, same>>

UpdateStamp(o, b, c) ==
    /\ call' = c
    /\ ~trapped
    /\ IF Traps(o, b)
          THEN trapped' = TRUE /\ UNCHANGED stamp
          ELSE stamp' \in FieldOp(o, stamp, b) /\ UNCHANGED trapped
    /\ UNCHANGED <<counter, ret, same>>

(* stamp()++ / stamp()--: the old stamp is returned.                       *)
PostStamp(o) ==
    /\ call' = <<"stamp", Postfix(o), 1, 0>>
    /\ ~trapped
    /\ stamp' \in FieldOp(o, stamp, 1) /\ ret' = stamp
    /\ UNCHANGED <<counter, trapped, same>>

(* The same for the counter part.                                          *)
SetCounter(s, c) ==
    /\ call' = c
    /\ ~trapped /\ counter' = s
    /\ UNCHANGED <<stamp, ret, trapped, same>>

UpdateCounter(o, b, c) ==
    /\ call' = c
    /\ ~trapped
    /\ IF Traps(o, b)
          THEN trapped' = TRUE /\ UNCHANGED counter
          ELSE counter' \in FieldOp(o, counter, b) /\ UNCHANGED trapped
    /\ UNCHANGED <<stamp, ret, same>>

PostCounter(o) ==
    /\ call' = <<"counter", Postfix(o), 1, 0>>
    /\ ~trapped
    /\ counter' \in FieldOp(o, counter, 1) /\ ret' = counter
    /\ UNCHANGED <<stamp, trapped, same>>

Next ==
    \/ \E s, c \in Field : SetBoth(s, c) \/ Equals(s, c)
    \/ \E s \in Field : SetStamp(s, <<"stamp", "=", s, 0>>)
                        \/ SetCounter(s, <<"counter", "=", s, 0>>)
    \/ \E src \in Parts : SetStamp(Part(src), <<Tag("stamp", src), "=", 0, 0>>)
                        \/ SetCounter(Part(src), <<Tag("counter", src), "=", 0, 0>>)
    \/ \E o \in Ops, b \in Args : UpdateStamp(o, b, <<"stamp", o, b, 0>>)
                                  \/ UpdateCounter(o, b, <<"counter", o, b, 0>>)
    \/ \E o \in Ops, src \in Parts :
          \/ UpdateStamp(o, Part(src), <<Tag("stamp", src), o, 0, 0>>)
          \/ UpdateCounter(o, Part(src), <<Tag("counter", src), o, 0, 0>>)
    \/ \E o \in {"+", "-"} : PostStamp(o) \/ PostCounter(o)

Spec == Init /\ [][Next]_vars

=============================================================================
