---------------------------- MODULE MCFileStore ----------------------------
(* Small instances of FileStore. *)
EXTENDS FileStore

CONSTANTS u1, u2, ann, a, b
MCUploads == {u1, u2}
MCUploader == [u \in MCUploads |-> ann]

Same == u1 :> <<a>> @@ u2 :> <<a>>
Start(old, plain, run, batch) == [old |-> old, plain |-> plain, run |-> run, batch |-> batch]

MCStarts == {Start({a}, {}, {"migrate"}, Same), Start({}, {a}, {"copy"}, Same),
             Start({}, {a}, {}, u1 :> <<b, a>> @@ u2 :> <<b>>)}
MCFresh == {Start({}, {}, {}, Same)}
=============================================================================
