\* Every graph of three nodes; a mailbox with a name of its own or a node's.
SPECIFICATION Spec
CONSTANTS
    Node = {a, b, c}
    Mailbox = {a, box}
INVARIANTS TypeOK ComponentsAreClasses MailboxCuts
