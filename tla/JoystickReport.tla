---------------------------- MODULE JoystickReport ----------------------------
(* DealTheJoystick: one joystick message becomes one call of JoystickCtrl.  The
   conversions are pure; the state is the last message and the last report.

   The six axes are converted alike: X stands for them.  Positions are thousandths.

   No number of the button list is checked before it selects the byte to write: one
   that selects a byte outside the 16 makes the code write elsewhere.  What the
   process does then is undefined; the model says only that it happened. *)
EXTENDS Integers, Sequences, FiniteSetsExt

CONSTANTS
    ButtonLists,   \* the "buttons" of a message, as lists of numbers
    Positions,     \* the "x" of a message
    Modes,         \* the "mode" of a message
    Uninitialized  \* what a byte that nobody has set may hold

ASSUME JoystickAssumption ==
    /\ ButtonLists \subseteq Seq(Int)
    /\ Positions \subseteq Int /\ Modes \subseteq Nat
    /\ Uninitialized \subseteq 0..255

VARIABLES
    message,    \* the last message
    report,     \* the last report
    overrun     \* a byte outside the 16 was written

Messages == [buttons : ButtonLists, x : Positions, mode : Modes]
Bytes == 0..15
NoButtons == [b \in Bytes |-> {}]

\* A byte of the report is the set of its bits.
TypeOK ==
    /\ message \in Messages \cup {<<>>}
    /\ report.buttons \in [Bytes -> SUBSET (0..7)]
    /\ report.X \in Int
    /\ report.hat \in 0..255
    /\ overrun \in BOOLEAN

Init ==
    /\ message = <<>>
    /\ report = [buttons |-> NoButtons, X |-> 0, hat |-> 255]
    /\ overrun = FALSE

-------------------------------------------------------------------------------
(* Conversions *)

\* BitSet: button n is bit (n % 8) - 1 of its byte.  The remainder of a negative
\* number is not positive in C++; then, and for n % 8 = 0, the shift is by -1 or by
\* more than 200, which on this machine moves the bit out of the byte.
BitSet(n) == IF n <= 0 \/ n % 8 = 0 THEN {} ELSE {(n % 8) - 1}

\* The byte of button n: the division drops the fraction.
Byte(n) == IF n < 0 THEN -((-n) \div 8) ELSE n \div 8

\* The positions of the list that are read: no more than size1.
Read(numbers, size1) == 1..Min({Len(numbers), size1})

\* Mutant: all bytes are cleared, whatever the size.
ClearsAll(numbers, bytes, size1) ==
    LET Bits(b) == UNION {BitSet(numbers[i]) :
                             i \in {j \in Read(numbers, size1) : Byte(numbers[j]) = b}} IN
    [b \in Bytes |-> Bits(b)]

\* Mutant: the byte of a button is one too low.
ByteBefore(numbers, bytes, size1) ==
    LET Bits(b) == UNION {BitSet(numbers[i]) :
                             i \in {j \in Read(numbers, size1) : Byte(numbers[j]) = b + 1}} IN
    [b \in Bytes |-> (IF b < size1 THEN {} ELSE bytes[b]) \cup Bits(b)]

\* size1 is both the number of bytes cleared and the number of buttons read.
ConvertTheSpecialString(numbers, bytes, size1) ==
    LET Bits(b) == UNION {BitSet(numbers[i]) :
                             i \in {j \in Read(numbers, size1) : Byte(numbers[j]) = b}} IN
    [b \in Bytes |-> (IF b < size1 THEN {} ELSE bytes[b]) \cup Bits(b)]

\* A number that selects a byte outside the 16 is among those read: 128 or more, -8 or
\* less.  (The second conversion reads the first number only, again.)
Overruns(numbers) == \E i \in Read(numbers, 16) : Byte(numbers[i]) \notin Bytes

\* Mutant: the upper limit is forgotten.
ClampedBelow(value, left, right) == Max({value, left})

\* Mutant: what is too large is taken for the lower limit.
ClampedWrong(value, left, right) == IF value \notin left..right THEN left ELSE value

\* The clamping of GetPercentInRange.
Clamped(value, left, right) == Max({left, Min({value, right})})

\* The end of an axis.
AxisEnd == 32737

\* GetPercentInRange(x, -1, 1) * AxisEnd, and GetIntegerFromFloat, which rounds a
\* half up.
Scaled(x) == ((Clamped(x, -1000, 1000) + 1000) * AxisEnd + 1000) \div 2000

\* The conversion of a float to an int drops the fraction.
Truncated(x) == IF x < 0 THEN -((-x) \div 1000) ELSE x \div 1000

\* JoystickParseMode does nothing in the modes it does not know.
JoystickParseMode(mode, x) == IF mode = 1 THEN Scaled(x) ELSE Truncated(x)

-------------------------------------------------------------------------------
\* The buttons are converted twice, the second time as if there were one byte;
\* the "hat" of the message is not: hatByte is passed on without having been set.
DealTheJoystick(m) ==
    /\ ~overrun
    /\ message' = m
    /\ overrun' = Overruns(m.buttons)
    /\ \E hatByte \in Uninitialized :
        report' = [buttons |-> ConvertTheSpecialString(m.buttons,
                                 ConvertTheSpecialString(m.buttons, NoButtons, 16), 1),
                   X |-> JoystickParseMode(m.mode, m.x),
                   hat |-> hatByte]

vars == <<message, report, overrun>>

Next == \E m \in Messages : DealTheJoystick(m)

Spec == Init /\ [][Next]_vars

-------------------------------------------------------------------------------
(* Properties *)

\* A message has been reported, and no byte was written outside the array.
Reported == message # <<>> /\ ~overrun

\* The buttons that a message names, and those among the first 16 numbers of its
\* list: more are not read, although the report has 128 bits (199).
Asked == {message.buttons[i] : i \in DOMAIN message.buttons}
AskedFirst == {message.buttons[i] : i \in Read(message.buttons, 16)}

\* By the layout of CloudGame.h:102-110, button n is bit (n - 1) % 8 of byte
\* (n - 1) / 8.
Pressed == {n \in 1..128 : (n - 1) % 8 \in report.buttons[(n - 1) \div 8]}

\* A report never presses a button the message does not name, unless a number of
\* the message made the code write outside the array.
NoPhantomButton == Reported => Pressed \subseteq Asked

\* Beyond the first byte, every button among the first 16 of the list arrives that
\* is not the last of its byte, unless the code wrote outside the array.
HighButtonsArrive == Reported => \A n \in AskedFirst : n > 8 /\ n % 8 # 0 => n \in Pressed

\* In mode 1 an axis stays within the limits of CloudGame.h:85-86, whatever the
\* position, ...
AxisInRange == Reported /\ message.mode = 1 => report.X \in 0..AxisEnd

\* ... and a stick that is moved further never reports less.
AxisMonotonic ==
    [][Reported /\ Reported' /\ message.mode = 1 /\ message'.mode = 1
         /\ message.x <= message'.x => report.X <= report'.X]_vars

\* CloudGame.h:107 and 110: two buttons of one byte can be pressed together, and
\* the last button of a byte is bit 7.
AllButtonsArrive == Reported => AskedFirst \cap (1..128) \subseteq Pressed
===============================================================================
