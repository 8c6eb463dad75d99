----------------------------- MODULE MCFormats ------------------------------
(***************************************************************************)
(* Formats for TLC.                                                        *)
(* Cbor has vaults whose numbers need heads of every width, a text of two- *)
(* and three-byte characters, lists, fields, two records, and records that *)
(* must not be written.  RecoveryText has keys of one byte, two vaults,    *)
(* and a checksum that often collides.  TextOutput has the bytes at the    *)
(* edges of the ranges that are compared: an ASCII letter, controls,       *)
(* continuation bytes, and first bytes of each width.                      *)
(***************************************************************************)
EXTENDS Formats

ASSUME C!CborConstants /\ R!RecoveryTextConstants /\ T!TextConstants

Base == [id |-> <<0, 7>>, revision |-> <<1>>, created |-> <<23>>, updated |-> <<24>>, flags |-> <<>>,
         title |-> <<65>>, username |-> <<>>, password |-> <<>>, urls |-> <<>>, notes |-> <<>>,
         tags |-> <<>>, fields |-> <<>>]
Rich == [Base EXCEPT !.id = <<9, 0>>, !.revision = <<255>>, !.created = <<1, 0>>,
                     !.updated = <<1, 139, 0, 0, 0, 5>>, !.flags = <<2>>, !.title = <<195, 169>>,
                     !.username = <<226, 130, 172>>, !.password = <<0, 255>>, !.urls = <<<<>>, <<97>>>>,
                     !.tags = <<<<98>>>>,
                     !.fields = << [name |-> <<99>>, value |-> <<128>>, flags |-> <<1>>] >>]
VaultOf(records) ==
    [generation |-> <<1, 0, 0>>, device |-> <<0, 1>>, created |-> <<127, 0, 0, 0, 0, 0, 0, 0>>,
     updated |-> <<255, 255, 255, 255>>, records |-> records]

const_Vaults ==
    {VaultOf(<<>>), VaultOf(<<Base>>), VaultOf(<<Base, Rich>>),
     VaultOf(<<Rich, [Base EXCEPT !.notes = <<97, 98, 99, 100>>], [Base EXCEPT !.id = <<1, 1>>]>>),
     VaultOf(<<[Base EXCEPT !.title = <<237, 160, 128>>]>>),
     VaultOf(<<[Rich EXCEPT !.tags = <<<<192, 128>>>>]>>),
     VaultOf(<<[Base EXCEPT !.id = <<0, 0>>]>>),
     [VaultOf(<<>>) EXCEPT !.updated = <<128, 0, 0, 0, 0, 0, 0, 0>>]}
\* 69, 101, 132 and 173 are a byte string, a text, a list and a map past their limits.
const_Damage == {0, 1, 2, 7, 24, 25, 65, 66, 69, 101, 128, 132, 173, 255}

const_Keys == {<<k>> : k \in {0, 1, 7, 8, 31, 127, 128, 200, 255}}
const_VaultIds == {1, 2}
const_Checksum == [v \in {1, 2} |-> [k \in [1..1 -> 0..255] |-> ((k[1] * 37 + 11 * v) % 64) + 128 * (v % 2)]]

const_Alphabet == {27, 65, 127, 128, 143, 144, 159, 160, 191, 192, 194, 224, 226, 237, 239, 240, 244, 245}
=============================================================================
