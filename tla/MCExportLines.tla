---------------------------- MODULE MCExportLines ----------------------------
(* Two expenses and two jobs, each with a cost code "Labor": the first has a
   number, the second has none. *)
EXTENDS ExportLines, TLC

CONSTANTS x1, x2, k1, k2, v1, v2, acc

Meals == [category |-> "Travel", sub_category |-> "Meals"]
Taxi == [category |-> "Taxi", sub_category |-> None]
MCCategories == {Meals, Taxi}
MCFirst == [x \in {x1, x2} |-> IF x = x1 THEN 
                                    [category |-> Meals, amount |-> 4, custom |-> "s1"]
                               ELSE
                                    [category |-> Taxi, amount |-> 14, custom |-> None]]

Entry(job, code, codeNo, codeName, cat, catNo, catName) ==
    [job |-> job, code |-> code, codeNo |-> codeNo, codeName |-> codeName,
     cat |-> cat, catNo |-> catNo, catName |-> catName]
MCTable == {Entry("j1", "c1", "01", "Labor", "t1", "1", "Crew"),
            Entry("j2", "c2", None, "Labor", "t2", "2", "Shop")}

Item(item, vendor, code, type) ==
    [item |-> item, vendor |-> vendor, code |-> code, type |-> type]
MCItems == {Item("i1", v1, "c1", "t1"), Item("i2", v2, "c2", "t2")}

Setting(k, f, by, second) ==
    [kind |-> k, fund |-> f, grouping |-> by,
     card |-> [x \in {x1, x2} |-> IF x = x1 THEN k1 ELSE second]]
MCSettings == {Setting("PURCHASE_INVOICE", "PERSONAL", "REPORT", k1),
               Setting("PURCHASE_INVOICE", "CCC", "REPORT", k2),
               Setting("DIRECT_COST", "PERSONAL", "REPORT", k1)}

MCMapped ==
    [account |-> [n \in CategoryNames |-> acc],
     vendor |-> [c \in {k1, k2, "EMPLOYEE", "DEFAULT"} |->
                    IF c \in {k2, "DEFAULT"} THEN v2 ELSE v1],
     source |-> [d \in Destinations |-> IF d = "STANDARD_CATEGORY" THEN "CUSTOM"
                                        ELSE "PROJECT"],
     id |-> [d \in Destinations |-> IF d = "JOB" THEN [j \in Jobs |-> j]
                                    ELSE [v \in {"s1", "j1"} |-> "standard"]],
     payable |-> [f \in {"PERSONAL", "CCC"} |-> IF f = "CCC" THEN acc ELSE None]]
MCMappings == {MCMapped}
=============================================================================
