\* Every callback in every order, with and without -v, the stream closing anywhere.
SPECIFICATION LifeSpec
CONSTANTS
  r1 = r1
  r2 = r2
  Rooms <- MCRooms
  RoomLists <- MCRoomLists
  Debugging = {TRUE, FALSE}
INVARIANTS
  OnlyTheLiving
  NothingLeaks
