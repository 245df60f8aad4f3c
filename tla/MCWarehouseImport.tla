--------------------------- MODULE MCWarehouseImport ---------------------------
(* WarehouseImport for TLC. *)
EXTENDS WarehouseImport, TLC

CONSTANTS n1, n2, c1, k1, k2

MCNames == {n1, n2}
MCCharacteristics == {c1}
MCCodes == {k1, k2}

\* One item, or two that differ in name and code.
MCOrders == {<<item>> : item \in Item}
            \cup {items \in Item \X Item : /\ items[1].name # items[2].name
                                          /\ items[1].code # items[2].code}

\* One field at a time: a name, no code, a barcode that looks like a code or is
\* left to be computed, a quantity that is none or none at all.
MCDtos == [name : MCNames] \cup [code : {NoCode}] \cup [barcode : MCCodes \cup {""}]
          \cup [quantity : {-1, 0}]

\* No index, as in production, or those the schema declares.
MCDeployments == {{}, {"itemKey", "barcode", "receiptNomenclatureCode"}}

\* Nothing but equality is asked of these.
Symmetry == Permutations(Procs) \cup Permutations(Sessions) \cup Permutations(MCNames)
            \cup Permutations(MCCodes)

==============================================================================
