----------------------------- MODULE StampedCounter -----------------------------
(***************************************************************************)
(* concurrent::stamped_counter of src/stamped_counter.hpp: one unsigned    *)
(* 2W-bit value, the stamp in the high W bits and the counter in the low W *)
(* bits.  stamp_reference and counter_reference update their part by       *)
(* extracting it into a W-bit temporary, applying the operator there and   *)
(* assigning the result back through pack.  The overloads taking another  *)
(* reference extract its part and call the ones taking a value.            *)
(* The class is not thread-safe: each step is one whole member call on one *)
(* object.                                                                 *)
(***************************************************************************)
EXTENDS Naturals, Bitwise

CONSTANTS W, Args

ASSUME W \in Nat \ {0} /\ Args \subseteq Nat

Field  == 0 .. 2 ^ W - 1
Packed == 0 .. 2 ^ (2 * W) - 1

(* The masks 0xFFFFFFFF00000000 and 0x00000000FFFFFFFF.                    *)
HighMask == (2 ^ W - 1) * 2 ^ W
LowMask  == 2 ^ W - 1

(* extract_stamp: (val & high mask) >> W.                                  *)
extract_stamp(val) == shiftR(val & HighMask, W)

(* extract_counter: val & low mask.                                        *)
extract_counter(val) == val & LowMask

(* pack: static_cast<value_type>(stamp) << W | counter, in 2W bits.        *)
pack(stamp, counter) == ((stamp * 2 ^ W) % 2 ^ (2 * W)) | counter

(* tmp op= b on a W-bit temporary (the two reference classes repeat the   *)
(* same bodies): the results the build can produce.                       *)
Compound(o, tmp, b) ==
    LET m  == 2 ^ W
        bw == b % m
    IN  CASE o = "+"  -> {(tmp + bw) % m}
          [] o = "-"  -> {(tmp + m - bw) % m}
          [] o = "*"  -> {(tmp * bw) % m}
          [] o = "/"  -> {tmp \div bw}
          [] o = "%"  -> {tmp % bw}
          [] o = "&"  -> {tmp & bw}
          [] o = "|"  -> {tmp | bw}
          [] o = "^"  -> {tmp ^^ bw}
          [] o = "<<" -> IF bw < W THEN {(tmp * 2 ^ bw) % m} ELSE Field
          [] o = ">>" -> IF bw < W THEN {shiftR(tmp, bw)} ELSE Field

(* Integer division and remainder by zero trap.                            *)
DividesByZero(o, b) == o \in {"/", "%"} /\ b % 2 ^ W = 0

Ops == {"+", "-", "*", "/", "%", "&", "|", "^", "<<", ">>"}

VARIABLES
    value,      \* the packed value_type
    ret,        \* the value the last postfix ++ / -- returned
    trapped,    \* a division by zero ended the process
    same,       \* the result of the last operator==
    call        \* history: the last member call, <<part, operator, operands>>

vars == <<value, ret, trapped, same, call>>

(* stamp_reference::operator stamp_type() and counter_reference::operator  *)
(* counter_type(): the part named src of the packed value.                 *)
PartOf(val, src) == IF src = "stamp" THEN extract_stamp(val) ELSE extract_counter(val)

Parts == {"stamp", "counter"}
Tag(dst, src) == IF dst = "stamp" THEN IF src = "stamp" THEN "s<-s" ELSE "s<-c"
                                  ELSE IF src = "stamp" THEN "c<-s" ELSE "c<-c"
Postfix(o) == IF o = "+" THEN "++(int)" ELSE "--(int)"

(* stamped_counter(val): any packed value.                                 *)
Init ==
    /\ value \in Packed /\ ret = 0 /\ trapped = FALSE /\ same = FALSE
    /\ call = <<"none", "none", 0, 0>>

(* stamped_counter(stamp, counter), or operator= from another object.      *)
Construct(s, c) ==
    /\ ~trapped
    /\ value' = pack(s, c)
    /\ call' = <<"both", "=", s, c>>
    /\ UNCHANGED <<ret, trapped, same>>

(* operator==(lhs, rhs): lhs.value == rhs.value, rhs = stamped_counter(s, c). *)
Equals(s, c) ==
    /\ ~trapped
    /\ same' = (value = pack(s, c))
    /\ call' = <<"both", "==", s, c>>
    /\ UNCHANGED <<value, ret, trapped>>

(* stamp_reference::operator=(stamp_type); the overload taking a           *)
(* stamp_reference assigns extract_stamp(other.value) through it.          *)
AssignStamp(s, c) ==
    /\ ~trapped
    /\ value' = pack(s, extract_counter(value))
    /\ call' = c
    /\ UNCHANGED <<ret, trapped, same>>

(* Fault model: the stamp operators copied from counter_reference with     *)
(* one extract_counter left in place.                                      *)
StampCompoundCopyPaste(o, b, c) ==
    /\ ~trapped
    /\ IF DividesByZero(o, b)
          THEN trapped' = TRUE /\ UNCHANGED value
          ELSE \E tmp \in Compound(o, extract_counter(value), b) :
                  value' = pack(tmp, extract_counter(value))
                  /\ UNCHANGED trapped
    /\ call' = c
    /\ UNCHANGED <<ret, same>>

(* stamp_reference::operator op=(stamp_type), and prefix ++ / -- which are *)
(* += 1 and -= 1: tmp = extract_stamp(value); tmp op= b; *this = tmp.  The *)
(* overloads taking a reference call it with the extracted part.           *)
StampCompound(o, b, c) ==
    /\ ~trapped
    /\ IF DividesByZero(o, b)
          THEN trapped' = TRUE /\ UNCHANGED value
          ELSE \E tmp \in Compound(o, extract_stamp(value), b) :
                  value' = pack(tmp, extract_counter(value))
                  /\ UNCHANGED trapped
    /\ call' = c
    /\ UNCHANGED <<ret, same>>

(* stamp_reference::operator++(int) / --(int): old = *this, then the    *)
(* prefix form on this reference.                                        *)
StampPostfix(o) ==
    /\ ~trapped
    /\ \E tmp \in Compound(o, extract_stamp(value), 1) :
          value' = pack(tmp, extract_counter(value))
    /\ ret' = extract_stamp(value)
    /\ call' = <<"stamp", Postfix(o), 1, 0>>
    /\ UNCHANGED <<trapped, same>>

(* counter_reference::operator=(counter_type), and from a reference.       *)
AssignCounter(s, c) ==
    /\ ~trapped
    /\ value' = pack(extract_stamp(value), s)
    /\ call' = c
    /\ UNCHANGED <<ret, trapped, same>>

(* counter_reference::operator op=(counter_type), prefix ++ / --, and the  *)
(* overloads taking a reference.                                           *)
CounterCompound(o, b, c) ==
    /\ ~trapped
    /\ IF DividesByZero(o, b)
          THEN trapped' = TRUE /\ UNCHANGED value
          ELSE \E tmp \in Compound(o, extract_counter(value), b) :
                  value' = pack(extract_stamp(value), tmp)
                  /\ UNCHANGED trapped
    /\ call' = c
    /\ UNCHANGED <<ret, same>>

(* counter_reference::operator++(int) / --(int).                           *)
CounterPostfix(o) ==
    /\ ~trapped
    /\ \E tmp \in Compound(o, extract_counter(value), 1) :
          value' = pack(extract_stamp(value), tmp)
    /\ ret' = extract_counter(value)
    /\ call' = <<"counter", Postfix(o), 1, 0>>
    /\ UNCHANGED <<trapped, same>>

(* The process was ended by the trap: nothing happens any more.           *)
Halted == trapped /\ UNCHANGED vars

(* A part of this same object as the operand (sc.stamp() += sc.counter()   *)
(* and the like) is read when the call starts, before the write.           *)
Next ==
    \/ \E s, c \in Field : Construct(s, c) \/ Equals(s, c)
    \/ \E s \in Field : AssignStamp(s, <<"stamp", "=", s, 0>>)
                        \/ AssignCounter(s, <<"counter", "=", s, 0>>)
    \/ \E src \in Parts :
          \/ AssignStamp(PartOf(value, src), <<Tag("stamp", src), "=", 0, 0>>)
          \/ AssignCounter(PartOf(value, src), <<Tag("counter", src), "=", 0, 0>>)
    \/ \E o \in Ops, b \in Args : StampCompound(o, b, <<"stamp", o, b, 0>>)
                                  \/ CounterCompound(o, b, <<"counter", o, b, 0>>)
    \/ \E o \in Ops, src \in Parts :
          \/ StampCompound(o, PartOf(value, src), <<Tag("stamp", src), o, 0, 0>>)
          \/ CounterCompound(o, PartOf(value, src), <<Tag("counter", src), o, 0, 0>>)
    \/ \E o \in {"+", "-"} : StampPostfix(o) \/ CounterPostfix(o)
    \/ Halted

Spec == Init /\ [][Next]_vars

-----------------------------------------------------------------------------
(* Refinement: reading the two parts out of the packed value (the          *)
(* stamp() and counter() const accessors) gives a behaviour of the         *)
(* two-field contract.                                                     *)
Abs == INSTANCE StampedCounterSpec
          WITH stamp <- extract_stamp(value), counter <- extract_counter(value)

(* Every sequence of member calls on a stamped_counter behaves as the two  *)
(* separate unsigned parts the class comment describes: an update of one   *)
(* part through stamp_reference or counter_reference never changes the     *)
(* other, wraps within its own W bits, and a postfix ++ / -- returns the   *)
(* part's old value; this is what the masks, the shifts and pack must get  *)
(* right together for every value, the boundary values included.           *)
StampedCounterRefinement == Abs!Spec

=============================================================================
