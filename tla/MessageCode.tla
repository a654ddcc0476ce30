----------------------------- MODULE MessageCode -----------------------------
(***************************************************************************)
(* The message code of control messages (generate_mac and verify_msgac in  *)
(* protocol.h) over the bodies of the group messages: numbers in decimal,  *)
(* separated by blanks.  A text is the sequence of its bytes.              *)
(***************************************************************************)
EXTENDS Integers, Sequences, SequencesExt, Bitwise

Blank == <<32>>
Minus == <<45>>

\* std::to_string of a number of at most three digits, or of -1.
Decimal(n) ==
    LET digit(d) == <<48 + d>>
    IN  IF n < 0 THEN Minus \o digit(-n)
        ELSE (IF n >= 100 THEN digit(n \div 100) ELSE <<>>)
             \o (IF n >= 10 THEN digit((n \div 10) % 10) ELSE <<>>)
             \o digit(n % 10)

\* What GROUP_MOVE_REQUEST and GROUP_ASSIGN, and what GROUP_MOVE_NOTIFY carry.
GroupBody(g) == Decimal(g)
NotifyBody(vm, old, new) == Decimal(vm) \o Blank \o Decimal(old) \o Blank \o Decimal(new)

\* Exclusive or of every byte with a byte of the key, which is used round.
GenerateMac(key, buf) ==
    FoldLeft(LAMBDA code, i : (code ^^ buf[i]) ^^ key[((i - 1) % Len(key)) + 1],
             0, [i \in 1..Len(buf) |-> i])

VerifyMsgac(key, msgac, buf) == GenerateMac(key, buf) = msgac

\* SECRET_KEY
SecretKey == <<65, 35, 85, 136>>
=============================================================================
