------------------------------- MODULE CopyData -------------------------------
(***************************************************************************)
(* What the conversions and system calls that all the programs use do to a *)
(* file.  A length stands for the bytes of the source up to it; of a copy  *)
(* only its length is kept and how many of its leading bytes are right.    *)
(***************************************************************************)
EXTENDS Integers

CONSTANT IntMod   \* 2^32, the number of values of a C int

ASSUME IntAssumption == IntMod \in Nat /\ IntMod > 1

\* The length of a file that does not exist.
Absent == -1

\* fsize = f_stat.st_size: a 64-bit off_t stored in an int.
ToInt_Unsigned(n) == n % IntMod
ToInt_Narrow(n) == n % (IntMod \div 2)
ToInt(n) ==
  LET m == n % IntMod IN IF 2 * m < IntMod THEN m ELSE m - IntMod

IntRange == {v \in Int : -IntMod <= 2 * v /\ 2 * v < IntMod}

\* A buffer: none, what mmap returns when it fails (the code tests for NULL
\* only), or the number of file bytes read into the mapping so far.
NoBuffer == -1
MapFailed == -2

\* What mmap of n bytes may return: a mapping of length 0 is refused, and one
\* of a negative number, which is a huge size_t.
MmapResults(n, faulty) ==
  {b \in {0, MapFailed} :
     /\ b = 0 => n > 0
     /\ b = MapFailed => n <= 0 \/ faulty}

\* io_submit refuses a negative length and a buffer that is not mapped.  For
\* length 0 it depends on the kernel whether the buffer is looked at.
Submittable(n, b) == n >= 0 /\ (n > 0 => b # MapFailed)

\* The res of an operation that failed.
BadRes == -1

Max2(a, b) == IF a >= b THEN a ELSE b

\* The destination after open(O_RDWR | O_CREAT), and after pwrite(buffer, n, 0):
\* O_TRUNC is not given.
Created(d) == [d EXCEPT !.len = Max2(@, 0)]
Written(d, b, n) == [same |-> IF b < n THEN b ELSE n, len |-> Max2(d.len, n)]
=============================================================================
