SPECIFICATION Spec
CONSTANTS
    Payments = 2
    Chat = {"c1", "c2"}
    Requests = 2
    MaxFaults = 1
INVARIANTS DeliveredOnce KeysStayWithTheChat
PROPERTIES KeepsDelivery KeyReachesPayer
CHECK_DEADLOCK FALSE
