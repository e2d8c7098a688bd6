SPECIFICATION FairSpec
CONSTANTS
    ota = ota
    mqtt = mqtt
    plain = plain
    upload = upload
    query = query
    Op = {upload, plain, query}
    NoOp = NoOp
    Owner = {ota, mqtt}
    NoOwner = NoOwner
    OwnerOf <- MCOwnerOf
    KindOf <- MCKindOf
    Urgent = {query}
    Guarded = {mqtt}
    QueueSize = 2
INVARIANTS ReplyIsOwn AdapterInStep
PROPERTIES ImplementsCommandService AllSettle
