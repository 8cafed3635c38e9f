-------------------------------- MODULE VID --------------------------------
(***************************************************************************)
(* The algebra of virtual identifiers (src/click-cc/vid.hh).               *)
(*                                                                         *)
(* A VID is a string of VidBits bits (48 in the code: VID_LEN = 6 bytes).  *)
(* Bits are numbered from the right, 1 being the least significant one,    *)
(* which is how the code counts them: flip_bit(k) flips bit k, and two     *)
(* VIDs are at logical distance k when k is the leftmost bit on which they *)
(* differ.  The HostBits rightmost bits (16: HOST_LEN = 2 bytes) name a    *)
(* host at its access switch, the others name the switch interface.        *)
(*                                                                         *)
(* The byte loops of the code are abstracted to what they compute on the   *)
(* string of bits; both widths are parameters, so that the theorems of     *)
(* VIDProofs hold for the code's 48/16 and TLC can use a few bits.         *)
(***************************************************************************)
EXTENDS Integers

CONSTANTS VidBits,    \* VID_LEN * 8
          HostBits    \* HOST_LEN * 8

ASSUME WidthAssumption == /\ VidBits \in Nat \ {0}
                          /\ HostBits \in 0 .. VidBits

BitPos == 1 .. VidBits
VIDs   == [BitPos -> {0, 1}]

\* VID(): the all-zero identifier an unassigned VID variable holds.
ZeroVID == [i \in BitPos |-> 0]

\* The positions on which two VIDs differ.
DiffBits(a, b) == {i \in BitPos : a[i] # b[i]}

\* Mutant: the length of the common suffix instead of the prefix.
DistanceFromRight(a, b) ==
  IF DiffBits(a, b) = {} THEN 0
  ELSE CHOOSE k \in DiffBits(a, b) : \A i \in DiffBits(a, b) : k <= i

\* VID_LEN*8 minus the length of the common prefix: the position of the
\* leftmost differing bit, and 0 for equal VIDs.
logical_distance(a, b) ==
  IF DiffBits(a, b) = {} THEN 0
  ELSE CHOOSE k \in DiffBits(a, b) : \A i \in DiffBits(a, b) : i <= k

\* Two VIDs that differ in host bits only belong to the same switch
\* interface; the code tests it as "logical_distance <= 16".
SameSwitch(a, b) == logical_distance(a, b) <= HostBits

\* getSwitchVID and extract_switch_vid: zero the host bits.
getSwitchVID(a) == [i \in BitPos |-> IF i <= HostBits THEN 0 ELSE a[i]]

\* calculate_rdv_point: keep the VidBits - k + 1 leftmost bits of the VID,
\* that is bits k and above, and zero the others.
calculate_rdv_point(a, k) == [i \in BitPos |-> IF i < k THEN 0 ELSE a[i]]

\* flip_bit, k in 1 .. VidBits.
flip_bit(a, k) == [a EXCEPT ![k] = 1 - a[k]]

\* XOR: the code adds up the differing switch bits as a binary number; what
\* its callers use of it is the order it gives, which is the order of the
\* leftmost bit on which the two differences disagree.
XORCloser(s, a, b) ==
  \E k \in (HostBits + 1) .. VidBits :
     /\ a[k] = s[k] /\ b[k] # s[k]
     /\ \A i \in (k + 1) .. VidBits : a[i] = b[i]

=============================================================================
