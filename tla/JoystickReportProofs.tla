------------------------- MODULE JoystickReportProofs -------------------------
(* Proofs about JoystickReport: what the conversions do with any list of buttons
   and at any position, and what that says of the reports. *)
EXTENDS JoystickReport, SequenceTheorems, TLAPS

-------------------------------------------------------------------------------
(* The axes *)

LEMMA MinOfTwo ==
    ASSUME NEW a \in Int, NEW b \in Int
    PROVE  Min({a, b}) = IF a <= b THEN a ELSE b
<1> DEFINE m == IF a <= b THEN a ELSE b
           IsMin(x) == x \in {a, b} /\ \A y \in {a, b} : x <= y
<1>1. m \in Int /\ IsMin(m) /\ \A x : IsMin(x) => x = m
  OBVIOUS
<1>2. IsMin(CHOOSE x : IsMin(x))
  BY <1>1
<1>3. Min({a, b}) = CHOOSE x \in {a, b} : \A y \in {a, b} : x <= y
  BY DEF Min
<1>4. QED
  BY <1>1, <1>2, <1>3

LEMMA MaxOfTwo ==
    ASSUME NEW a \in Int, NEW b \in Int
    PROVE  Max({a, b}) = IF a >= b THEN a ELSE b
<1> DEFINE m == IF a >= b THEN a ELSE b
           IsMax(x) == x \in {a, b} /\ \A y \in {a, b} : x >= y
<1>1. m \in Int /\ IsMax(m) /\ \A x : IsMax(x) => x = m
  OBVIOUS
<1>2. IsMax(CHOOSE x : IsMax(x))
  BY <1>1
<1>3. Max({a, b}) = CHOOSE x \in {a, b} : \A y \in {a, b} : x >= y
  BY DEF Max
<1>4. QED
  BY <1>1, <1>2, <1>3

\* A clamped value lies within the limits, and clamping keeps the order.
LEMMA ClampedLimits ==
    ASSUME NEW v \in Int, NEW w \in Int, NEW left \in Int, NEW right \in Int, left <= right
    PROVE  /\ Clamped(v, left, right) \in left..right
           /\ v <= w => Clamped(v, left, right) <= Clamped(w, left, right)
<1>1. \A x \in Int : Clamped(x, left, right)
                       = IF x <= left THEN left ELSE IF x <= right THEN x ELSE right
  BY MinOfTwo, MaxOfTwo DEF Clamped
<1>2. QED
  BY <1>1

\* What Scaled does with a clamped value.
Scale(c) == ((c + 1000) * AxisEnd + 1000) \div 2000

LEMMA ScaleRange ==
    ASSUME NEW c \in Int, -1000 <= c, c <= 1000
    PROVE  Scale(c) \in Int /\ 0 <= Scale(c) /\ Scale(c) <= AxisEnd
<1> DEFINE n == (c + 1000) * 32737 + 1000
<1>1. n \in Int /\ 0 <= n /\ n <= 2000 * 32737 + 1000
  BY SMT
<1>2. n \div 2000 \in Int /\ 0 <= n \div 2000 /\ n \div 2000 <= 32737
  <2> HIDE DEF n
  <2> QED
    BY <1>1, SMT
<1>3. Scale(c) = n \div 2000
  BY DEF Scale, AxisEnd
<1> HIDE DEF n
<1>4. QED
  BY <1>2, <1>3, SMT DEF AxisEnd

LEMMA ScaleOrder ==
    ASSUME NEW c \in Int, NEW d \in Int, c <= d
    PROVE  Scale(c) <= Scale(d)
<1> DEFINE n == (c + 1000) * 32737 + 1000
           m == (d + 1000) * 32737 + 1000
<1>1. n \in Int /\ m \in Int /\ n <= m
  BY SMT
<1>2. n \div 2000 <= m \div 2000
  <2> HIDE DEF n, m
  <2> QED
    BY <1>1, SMT
<1>3. Scale(c) = n \div 2000 /\ Scale(d) = m \div 2000
  BY DEF Scale, AxisEnd
<1> HIDE DEF n, m
<1>4. QED
  BY <1>2, <1>3

\* The scale of mode 1 ends at the limits of the axis, and goes up throughout.
LEMMA ScaledLimits ==
    ASSUME NEW x \in Int, NEW y \in Int
    PROVE  /\ Scaled(x) \in Int /\ 0 <= Scaled(x) /\ Scaled(x) <= AxisEnd
           /\ x <= y => Scaled(x) <= Scaled(y)
<1> DEFINE left == -1000
           right == 1000
           a == Clamped(x, left, right)
           b == Clamped(y, left, right)
<1>1. Scaled(x) = Scale(a) /\ Scaled(y) = Scale(b)
  BY DEF Scaled, Scale
<1>2. left \in Int /\ right \in Int /\ left <= right
  BY SMT
<1> HIDE DEF left, right
<1>3. /\ a \in Int /\ left <= a /\ a <= right /\ b \in Int
      /\ x <= y => a <= b
  BY <1>2, ClampedLimits
<1> HIDE DEF a, b
<1>4. -1000 <= a /\ a <= 1000
  BY <1>3 DEF left, right
<1>5. /\ Scale(a) \in Int /\ 0 <= Scale(a) /\ Scale(a) <= AxisEnd
      /\ x <= y => Scale(a) <= Scale(b)
  BY <1>3, <1>4, ScaleRange, ScaleOrder
<1>6. QED
  BY <1>1, <1>5

LEMMA TruncatedType == ASSUME NEW x \in Int PROVE Truncated(x) \in Int
  BY DEF Truncated

-------------------------------------------------------------------------------
(* The buttons *)

LEMMA Bits ==
    ASSUME NEW n \in Int
    PROVE  /\ n \div 8 \in Int /\ n % 8 \in 0..7
           /\ n % 8 # 0 => (n - 1) % 8 = (n % 8) - 1 /\ (n - 1) \div 8 = n \div 8
           /\ 1 <= n /\ n <= 128 => (n - 1) \div 8 \in Bytes /\ (n - 1) % 8 \in 0..7
  BY SMT DEF Bytes

\* The bit of a button is that of no other.
LEMMA OneBit ==
    ASSUME NEW n \in Int, NEW m \in Int,
           m \div 8 = (n - 1) \div 8, m % 8 = ((n - 1) % 8) + 1
    PROVE  m = n
  BY SMT

LEMMA BitOf ==
    ASSUME NEW n \in Int, NEW k
    PROVE  k \in BitSet(n) <=> n > 0 /\ k \in 0..6 /\ n % 8 = k + 1
<1> DEFINE r == n % 8
<1>1. r \in 0..7
  BY Bits
<1>2. BitSet(n) = IF n <= 0 \/ r = 0 THEN {} ELSE {r - 1}
  BY DEF BitSet
<1> HIDE DEF r
<1>3. k \in BitSet(n) <=> n > 0 /\ k \in 0..6 /\ r = k + 1
  BY <1>1, <1>2
<1>4. QED
  BY <1>3 DEF r

LEMMA ReadFirst ==
    ASSUME NEW numbers, Len(numbers) \in Nat, NEW size \in Nat
    PROVE  Read(numbers, size) = {i \in 1..Len(numbers) : i <= size}
<1>1. Min({Len(numbers), size}) = IF Len(numbers) <= size THEN Len(numbers) ELSE size
  BY MinOfTwo
<1>2. QED
  BY <1>1 DEF Read

\* A number whose byte is one of the 16 is at most 127.
LEMMA InsideBytes ==
    ASSUME NEW n \in Int, n > 8, Byte(n) \in Bytes
    PROVE  1 <= n /\ n <= 128
<1>1. n \div 8 \in Int /\ n \div 8 <= 15
  BY SMT DEF Byte, Bytes
<1>2. QED
  BY <1>1, SMT

\* A byte keeps what it had unless it is cleared, and has the bits of the numbers read.
LEMMA ConvertedBytes ==
    ASSUME NEW numbers, Len(numbers) \in Nat, \A i \in 1..Len(numbers) : numbers[i] \in Int,
           NEW bytes, NEW size \in Nat, NEW b \in Bytes, NEW k
    PROVE  k \in ConvertTheSpecialString(numbers, bytes, size)[b] <=>
             \/ b >= size /\ k \in bytes[b]
             \/ \E i \in 1..Len(numbers) :
                  i <= size /\ numbers[i] > 0 /\ numbers[i] \div 8 = b
                    /\ numbers[i] % 8 = k + 1 /\ k \in 0..6
<1>1. Read(numbers, size) = {i \in 1..Len(numbers) : i <= size}
  BY ReadFirst
<1>2. \A i \in 1..Len(numbers) :
        k \in BitSet(numbers[i]) <=> numbers[i] > 0 /\ k \in 0..6 /\ numbers[i] % 8 = k + 1
  BY BitOf
<1>3. k \in ConvertTheSpecialString(numbers, bytes, size)[b] <=>
        \/ ~(b < size) /\ k \in bytes[b]
        \/ \E i \in {i \in 1..Len(numbers) : i <= size} :
             Byte(numbers[i]) = b /\ k \in BitSet(numbers[i])
  BY <1>1 DEF ConvertTheSpecialString
<1>p. \A i \in 1..Len(numbers) : numbers[i] > 0 => Byte(numbers[i]) = numbers[i] \div 8
  BY DEF Byte
<1>4. b \in Int
  BY DEF Bytes
<1>5. ~(b < size) <=> b >= size
  BY <1>4
<1>6. QED
  BY <1>2, <1>3, <1>5, <1>p

\* The buttons of a report: all that is left of two conversions.
Buttons(numbers) ==
    ConvertTheSpecialString(numbers, ConvertTheSpecialString(numbers, NoButtons, 16), 1)

LEMMA ReportedButtons ==
    ASSUME NEW numbers, Len(numbers) \in Nat, \A i \in 1..Len(numbers) : numbers[i] \in Int,
           NEW b \in Bytes, NEW k
    PROVE  k \in Buttons(numbers)[b] <=>
             \E i \in 1..Len(numbers) :
               /\ i <= 1 \/ (b >= 1 /\ i <= 16)
               /\ numbers[i] > 0
               /\ numbers[i] \div 8 = b /\ numbers[i] % 8 = k + 1 /\ k \in 0..6
<1> DEFINE Reads(i) == numbers[i] > 0 /\ numbers[i] \div 8 = b
                         /\ numbers[i] % 8 = k + 1 /\ k \in 0..6
           once == ConvertTheSpecialString(numbers, NoButtons, 16)
<1>1. k \in once[b] <=>
        \/ b >= 16 /\ k \in NoButtons[b]
        \/ \E i \in 1..Len(numbers) : i <= 16 /\ Reads(i)
  BY ConvertedBytes
<1>2. ~(b >= 16)
  BY DEF Bytes
<1>3. k \in once[b] <=> \E i \in 1..Len(numbers) : i <= 16 /\ Reads(i)
  BY <1>1, <1>2
<1>4. Buttons(numbers) = ConvertTheSpecialString(numbers, once, 1)
  BY DEF Buttons
<1> HIDE DEF once
<1>5. k \in ConvertTheSpecialString(numbers, once, 1)[b] <=>
        \/ b >= 1 /\ k \in once[b]
        \/ \E i \in 1..Len(numbers) : i <= 1 /\ Reads(i)
  BY ConvertedBytes
<1> HIDE DEF Reads
<1>6. k \in Buttons(numbers)[b] <=>
        \E i \in 1..Len(numbers) : (i <= 1 \/ (b >= 1 /\ i <= 16)) /\ Reads(i)
  BY <1>3, <1>4, <1>5
<1>7. QED
  BY <1>6 DEF Reads

-------------------------------------------------------------------------------
(* The reports *)

\* A report says what its message does, and nothing of the messages before it.
IInv ==
    \/ /\ message = <<>> /\ report = [buttons |-> NoButtons, X |-> 0, hat |-> 255]
       /\ overrun = FALSE
    \/ /\ message \in Messages
       /\ overrun = Overruns(message.buttons)
       /\ \E hatByte \in Uninitialized :
            report = [buttons |-> Buttons(message.buttons),
                      X |-> JoystickParseMode(message.mode, message.x),
                      hat |-> hatByte]

LEMMA ReportInvariant == Spec => []IInv
<1>1. Init => IInv
  BY DEF Init, IInv
<1>2. IInv /\ [Next]_vars => IInv'
  <2>1. CASE Next
    BY <2>1 DEF Next, DealTheJoystick, Buttons, IInv
  <2>2. CASE UNCHANGED vars
    BY <2>2 DEF vars, IInv
  <2>3. QED
    BY <2>1, <2>2
<1>3. QED
  BY <1>1, <1>2, PTL DEF Spec

LEMMA MessageTypes ==
    ASSUME NEW m \in Messages
    PROVE  /\ m.x \in Int /\ m.mode \in Nat
           /\ Len(m.buttons) \in Nat /\ DOMAIN m.buttons = 1..Len(m.buttons)
           /\ \A i \in 1..Len(m.buttons) : m.buttons[i] \in Int
<1>1. m.buttons \in Seq(Int) /\ m.x \in Int /\ m.mode \in Nat
  BY JoystickAssumption DEF JoystickAssumption, Messages
<1> DEFINE s == m.buttons
<1>2. Len(s) \in Nat /\ DOMAIN s = 1..Len(s) /\ \A i \in 1..Len(s) : s[i] \in Int
  BY <1>1, ElementOfSeq, LenProperties
<1>4. QED
  BY <1>1, <1>2

LEMMA MessageNotEmpty == ASSUME NEW m \in Messages PROVE m # <<>>
<1>1. DOMAIN m = {"buttons", "x", "mode"}
  BY DEF Messages
<1>2. DOMAIN <<>> = {}
  BY SMT
<1>3. QED
  BY <1>1, <1>2

\* The axis that a message leads to.
LEMMA ReportedAxis ==
    ASSUME NEW m \in Messages
    PROVE  /\ JoystickParseMode(m.mode, m.x) \in Int
           /\ m.mode = 1 => JoystickParseMode(m.mode, m.x) = Scaled(m.x)
<1>1. m.x \in Int
  BY MessageTypes
<1>2. Scaled(m.x) \in Int /\ Truncated(m.x) \in Int
  BY <1>1, ScaledLimits, TruncatedType
<1>3. QED
  BY <1>2 DEF JoystickParseMode

\* Sixteen bytes of eight bits, an axis, and a hat of eight bits.
THEOREM TypeCorrect == Spec => []TypeOK
<1>1. ASSUME IInv PROVE TypeOK
  <2>0. overrun \in BOOLEAN
    BY <1>1 DEF IInv, Overruns
  <2>1. CASE message = <<>> /\ report = [buttons |-> NoButtons, X |-> 0, hat |-> 255]
    BY <2>0, <2>1 DEF TypeOK, NoButtons
  <2>2. CASE message \in Messages /\ message # <<>>
    <3>1. PICK hatByte \in Uninitialized :
            report = [buttons |-> Buttons(message.buttons),
                      X |-> JoystickParseMode(message.mode, message.x),
                      hat |-> hatByte]
      BY <1>1, <2>2 DEF IInv
    <3>2. \A b \in Bytes : \A k : k \in report.buttons[b] => k \in 0..7
      BY <2>2, <3>1, MessageTypes, ReportedButtons, SMTT(30)
    <3>3. report.buttons = [b \in Bytes |-> report.buttons[b]]
      BY <3>1 DEF Buttons, ConvertTheSpecialString
    <3>4. report.X \in Int /\ report.hat \in Uninitialized
      BY <2>2, <3>1, ReportedAxis
    <3>5. report.buttons \in [Bytes -> SUBSET (0..7)]
      BY <3>2, <3>3
    <3>6. report.hat \in 0..255
      BY <3>4, JoystickAssumption DEF JoystickAssumption
    <3>7. QED
      BY <2>0, <2>2, <3>4, <3>5, <3>6 DEF TypeOK
  <2>3. QED
    BY <1>1, <2>1, <2>2, MessageNotEmpty DEF IInv
<1>2. QED
  BY <1>1, ReportInvariant, PTL

\* Whatever the list of a message, of any length and with any numbers, the report
\* presses no button that is not on it, unless one of the first 16 numbers selects a
\* byte outside the array.
THEOREM NothingPressedUnasked == Spec => []NoPhantomButton
<1>1. ASSUME IInv PROVE NoPhantomButton
  <2> SUFFICES ASSUME Reported, NEW n \in Pressed PROVE n \in Asked
    BY DEF NoPhantomButton
  <2> DEFINE b == (n - 1) \div 8
             k == (n - 1) % 8
  <2>1. n \in Int /\ 1 <= n /\ n <= 128 /\ k \in report.buttons[b]
    BY DEF Pressed
  <2>2. b \in Bytes
    BY <2>1, Bits
  <2>3. message # <<>> /\ message \in Messages
    BY <1>1 DEF IInv, Reported
  <2>4. k \in Buttons(message.buttons)[b]
    BY <1>1, <2>1, <2>3 DEF IInv
  <2> HIDE DEF b, k
  <2>5. PICK i \in 1..Len(message.buttons) :
          message.buttons[i] \div 8 = b /\ message.buttons[i] % 8 = k + 1
    BY <2>2, <2>3, <2>4, MessageTypes, ReportedButtons
  <2>6. message.buttons[i] \in Int
    BY <2>3, MessageTypes
  <2>7. message.buttons[i] = n
    BY <2>1, <2>5, <2>6, OneBit DEF b, k
  <2>8. QED
    BY <2>3, <2>7, MessageTypes DEF Asked
<1>2. QED
  BY <1>1, ReportInvariant, PTL

\* Of a list of any length and with any numbers, every button among the first 16 that
\* is beyond the first byte and not the last of its byte is pressed, unless one of
\* these numbers selects a byte outside the array.
THEOREM HighButtonsPressed == Spec => []HighButtonsArrive
<1>1. ASSUME IInv PROVE HighButtonsArrive
  <2> SUFFICES ASSUME Reported, NEW n \in AskedFirst, n > 8, n % 8 # 0
               PROVE  n \in Pressed
    BY DEF HighButtonsArrive
  <2>1. message \in Messages /\ ~Overruns(message.buttons)
    BY <1>1 DEF IInv, Reported
  <2>t. Len(message.buttons) \in Nat /\ \A j \in 1..Len(message.buttons) : message.buttons[j] \in Int
    BY <2>1, MessageTypes
  <2>r. Read(message.buttons, 16) = {i \in 1..Len(message.buttons) : i <= 16}
    BY <2>t, ReadFirst
  <2>2. PICK i \in 1..Len(message.buttons) : n = message.buttons[i] /\ i <= 16
    BY <2>r DEF AskedFirst
  <2>3. n \in Int /\ 1 <= n /\ n <= 128 /\ i <= 16
    <3>1. n \in Int /\ Byte(n) \in Bytes
      BY <2>1, <2>t, <2>r, <2>2 DEF Overruns
    <3>2. QED
      BY <2>2, <3>1, InsideBytes
  <2> DEFINE b == (n - 1) \div 8
             k == (n - 1) % 8
  <2>4. b \in Bytes /\ k \in 0..6 /\ b >= 1 /\ n \div 8 = b /\ n % 8 = k + 1
    <3>1. b \in Bytes /\ k = (n % 8) - 1 /\ n \div 8 = b /\ n % 8 \in 0..7
      BY <2>3, Bits
    <3>2. n \div 8 >= 1
      BY <2>3, SMT
    <3> HIDE DEF b, k
    <3>3. QED
      BY <3>1, <3>2
  <2>5. report.buttons = Buttons(message.buttons)
    BY <1>1 DEF IInv, Reported
  <2> HIDE DEF b, k
  <2>6. k \in Buttons(message.buttons)[b]
    <3>1. message.buttons[i] > 0 /\ message.buttons[i] \div 8 = b
          /\ message.buttons[i] % 8 = k + 1
      BY <2>2, <2>3, <2>4
    <3>2. QED
      BY <2>t, <2>2, <2>4, <3>1, ReportedButtons
  <2>7. n \in 1..128
    BY <2>3, SMT
  <2>8. QED
    BY <2>5, <2>6, <2>7 DEF Pressed, b, k
<1>2. QED
  BY <1>1, ReportInvariant, PTL

\* The axis of mode 1 stays within its limits, wherever the stick is.
THEOREM AxisWithinLimits == Spec => []AxisInRange
<1>1. ASSUME IInv PROVE AxisInRange
  <2> SUFFICES ASSUME Reported, message.mode = 1 PROVE report.X \in 0..AxisEnd
    BY DEF AxisInRange
  <2>1. message \in Messages /\ report.X = JoystickParseMode(message.mode, message.x)
    BY <1>1 DEF IInv, Reported
  <2>2. report.X = Scaled(message.x) /\ message.x \in Int
    BY <2>1, ReportedAxis, MessageTypes
  <2>3. AxisEnd \in Int
    BY DEF AxisEnd
  <2>4. QED
    BY <2>2, <2>3, ScaledLimits, SMTT(30)
<1>2. QED
  BY <1>1, ReportInvariant, PTL

\* Of two messages in mode 1, the one with the stick further on reports no less.
THEOREM AxisFollowsStick == Spec => AxisMonotonic
<1> DEFINE Follows ==
      Reported /\ Reported' /\ message.mode = 1 /\ message'.mode = 1
        /\ message.x <= message'.x => report.X <= report'.X
<1>1. IInv /\ [Next]_vars => [Follows]_vars
  <2> SUFFICES ASSUME IInv, Next, Reported, message.mode = 1, message'.mode = 1,
                      message.x <= message'.x
               PROVE  report.X <= report'.X
    BY DEF Follows
  <2>1. message \in Messages /\ report.X = JoystickParseMode(message.mode, message.x)
    BY DEF IInv, Reported
  <2>2. message' \in Messages /\ report'.X = JoystickParseMode(message'.mode, message'.x)
    BY DEF Next, DealTheJoystick
  <2>3. report.X = Scaled(message.x) /\ report'.X = Scaled(message'.x)
    BY <2>1, <2>2, ReportedAxis
  <2>4. message.x \in Int /\ message'.x \in Int
    BY <2>1, <2>2, MessageTypes
  <2>5. \A x, y \in Int : x <= y => Scaled(x) <= Scaled(y)
    BY ScaledLimits
  <2>6. QED
    BY <2>3, <2>4, <2>5
<1>2. QED
  BY <1>1, ReportInvariant, PTL DEF Spec, AxisMonotonic
===============================================================================
